---------------------------- MODULE Spec2Model ----------------------------
(***************************************************************************)
(* A model of geo-munge's proximity tool: the quadtree index behind the    *)
(* Searchable wrappers (src/qt/mod.rs), the comparison-record reader and   *)
(* result writer (src/bin/proximity/csv), and the two drivers that stream  *)
(* comparison records through the index: exec_single_thread and            *)
(* exec_multi_thread.                                                      *)
(*                                                                         *)
(* Numbers.  Coordinates are integers: degrees as read, milliradians once  *)
(* converted (ToRadians).  The great-circle distance of the quadtree crate *)
(* is stood for by the squared planar distance between milliradian points  *)
(* (Dist); it keeps what the search relies on: a node's rectangle distance *)
(* is a lower bound of the distance to every point inside it.              *)
(*                                                                         *)
(* Rows.  An output row is the WriteData handed to write_line: the input   *)
(* record's index and id, its lng and lat as read, the distance and the    *)
(* matched datum's index.                                                  *)
(***************************************************************************)
EXTENDS Integers, Sequences, FiniteSets, TLC

(***************************************************************************)
(* Bounds of the model.                                                    *)
(***************************************************************************)
MaxRecords == 2      \* longest comparison stream
MaxThreads == 2      \* largest rayon pool
MaxK == 2            \* largest k given with -k
MaxInserts == 3      \* longest insert sequence of the index specification

\* Option: None and Some(v).
None == [some |-> FALSE]
Some(v) == [some |-> TRUE, val |-> v]

\* A search radius: a distance, or f64::INFINITY.
Infinity == [inf |-> TRUE]
Finite(v) == [inf |-> FALSE, val |-> v]
Within(dist, r) == r.inf \/ dist <= r.val

(***************************************************************************)
(* Geometry: points, rectangles, distance.                                 *)
(***************************************************************************)
Pt(x, y) == [x |-> x, y |-> y]

Rect(minx, miny, maxx, maxy) ==
    [minx |-> minx, miny |-> miny, maxx |-> maxx, maxy |-> maxy]

\* Degrees to milliradians: pi / 180 = 0.017453...
ToRadians(deg) == IF deg >= 0 THEN (deg * 17453) \div 1000
                  ELSE -(((-deg) * 17453) \div 1000)

Contains(rect, p) ==
    /\ rect.minx <= p.x /\ p.x <= rect.maxx
    /\ rect.miny <= p.y /\ p.y <= rect.maxy

Sq(n) == n * n

\* point_point: the distance between two points.
Dist(a, b) == Sq(a.x - b.x) + Sq(a.y - b.y)

Clamp(v, lo, hi) == IF v < lo THEN lo ELSE IF v > hi THEN hi ELSE v

\* point_rect: 0 inside the rectangle, else the distance to its nearest edge.
PointRect(p, rect) ==
    Dist(p, Pt(Clamp(p.x, rect.minx, rect.maxx), Clamp(p.y, rect.miny, rect.maxy)))

(***************************************************************************)
(* Datums.  A geometry is a kind and its vertices; a datum adds the index  *)
(* of the source record it came from.                                      *)
(***************************************************************************)
PointGeom(p) == [kind |-> "Point", pts |-> <<p>>]

LineGeom(a, b) == [kind |-> "LineString", pts |-> <<a, b>>]

Datum(geom, index) == [geom |-> geom, index |-> index]

\* Datum::as_point: the point of a point datum.
as_point(d) == d.geom.pts[1]

RECURSIVE MinOver(_, _, _)
MinOver(p, pts, i) ==
    IF i = Len(pts) THEN Dist(p, pts[i])
    ELSE LET rest == MinOver(p, pts, i + 1)
             here == Dist(p, pts[i])
         IN IF here <= rest THEN here ELSE rest

\* The distance from a point to a datum's geometry (to its nearest vertex).
GeomDist(p, d) == MinOver(p, d.geom.pts, 1)

(***************************************************************************)
(* The quadtree.  A node is named by its path from the root (a sequence of *)
(* quadrants); nodes maps every node that exists to its leaf data and      *)
(* whether it has been subdivided.                                         *)
(***************************************************************************)
NW == "NW"
NE == "NE"
SW == "SW"
SE == "SE"
Quadrants == {NW, NE, SW, SE}

MidX(rect) == (rect.minx + rect.maxx) \div 2
MidY(rect) == (rect.miny + rect.maxy) \div 2

\* The child a point falls in: a point on a split line goes to the low side.
Quadrant(rect, p) ==
    IF p.y > MidY(rect)
    THEN (IF p.x > MidX(rect) THEN NE ELSE NW)
    ELSE (IF p.x > MidX(rect) THEN SE ELSE SW)

ChildRect(rect, q) ==
    CASE q = NW -> Rect(rect.minx, MidY(rect), MidX(rect), rect.maxy)
      [] q = NE -> Rect(MidX(rect), MidY(rect), rect.maxx, rect.maxy)
      [] q = SW -> Rect(rect.minx, rect.miny, MidX(rect), MidY(rect))
      [] q = SE -> Rect(MidX(rect), rect.miny, rect.maxx, MidY(rect))

RECURSIVE NodeRect(_, _, _)
NodeRect(rect, path, i) ==
    IF i > Len(path) THEN rect
    ELSE NodeRect(ChildRect(rect, path[i]), path, i + 1)

Leaf(data) == [internal |-> FALSE, data |-> data]

\* QuadTree::new: a root leaf of depth 0.
NewTree(bounds, depth, max_children) ==
    [bounds |-> bounds, max_depth |-> depth, max_children |-> max_children,
     size |-> 0, nodes |-> (<<>> :> Leaf(<<>>))]

Ok(v) == [ok |-> TRUE, val |-> v]
Err(e) == [ok |-> FALSE, err |-> e]

\* Subdivision: the node becomes internal and gets four empty leaves.
Subdivide(nodes, path) ==
    [p \in DOMAIN nodes \cup {Append(path, q) : q \in Quadrants} |->
        IF p = path THEN [internal |-> TRUE, data |-> <<>>]
        ELSE IF p \in DOMAIN nodes THEN nodes[p]
        ELSE Leaf(<<>>)]

\* Descend to the leaf that owns the datum's point and append the datum; a
\* leaf over capacity above the maximum depth is subdivided and its datums
\* are placed again, one by one, by the same rule.
RECURSIVE InsertAt(_, _, _, _)
RECURSIVE InsertAll(_, _, _, _, _)
InsertAt(t, nodes, path, d) ==
    LET rect == NodeRect(t.bounds, path, 1) IN
    IF nodes[path].internal
    THEN InsertAt(t, nodes, Append(path, Quadrant(rect, as_point(d))), d)
    ELSE LET data == Append(nodes[path].data, d) IN
         IF Len(data) > t.max_children /\ Len(path) < t.max_depth
         THEN InsertAll(t, Subdivide(nodes, path), path, data, 1)
         ELSE [nodes EXCEPT ![path] = Leaf(data)]

InsertAll(t, nodes, path, data, i) ==
    IF i > Len(data) THEN nodes
    ELSE InsertAll(t, InsertAt(t, nodes, path, data[i]), path, data, i + 1)

\* QuadTree::insert of the point quadtree.
QuadTreeInsert(t, d) ==
    IF ~Contains(t.bounds, as_point(d)) THEN Err("OutOfBounds")
    ELSE Ok([t EXCEPT !.nodes = InsertAt(t, t.nodes, <<>>, d),
                      !.size = t.size + 1])

\* Every datum the tree holds.
TreeData(t) ==
    UNION {{t.nodes[p].data[i] : i \in 1..Len(t.nodes[p].data)} : p \in DOMAIN t.nodes}

(***************************************************************************)
(* Best-first search.  The queue holds nodes, keyed by the distance to     *)
(* their rectangle, and datums, keyed by their true distance.              *)
(***************************************************************************)
NodeEntry(t, q, path) ==
    [kind |-> "node", path |-> path, dist |-> PointRect(q, NodeRect(t.bounds, path, 1))]

DatumEntry(q, d) == [kind |-> "datum", datum |-> d, dist |-> GeomDist(q, d)]

\* The entries a popped node is replaced by: its children and its datums.
Expand(t, q, path) ==
    LET n == t.nodes[path] IN
    (IF n.internal THEN {NodeEntry(t, q, Append(path, c)) : c \in Quadrants} ELSE {})
    \cup {DatumEntry(q, n.data[i]) : i \in 1..Len(n.data)}

\* The queue's order; among equal distances a node comes before a datum and
\* the datum of the smaller index before the other.
Before(a, b) ==
    \/ a.dist < b.dist
    \/ /\ a.dist = b.dist
       /\ \/ a.kind = "node"
          \/ a.kind = "datum" /\ b.kind = "datum" /\ a.datum.index <= b.datum.index

PopMin(queue) == CHOOSE e \in queue : \A f \in queue : Before(e, f)

RECURSIVE BestFirst(_, _, _, _)
BestFirst(t, q, r, queue) ==
    IF queue = {} THEN Err("NoneInRadius")
    ELSE LET e == PopMin(queue) IN
         IF e.kind = "datum"
         THEN (IF Within(e.dist, r)
               THEN Ok([datum |-> e.datum, distance |-> e.dist])
               ELSE Err("NoneInRadius"))
         ELSE BestFirst(t, q, r, (queue \ {e}) \cup Expand(t, q, e.path))

\* QuadTreeSearch::find_r
find_r(t, q, r) ==
    IF ~Contains(t.bounds, q) THEN Err("OutOfBounds")
    ELSE IF t.size = 0 THEN Err("Empty")
    ELSE BestFirst(t, q, r, {NodeEntry(t, q, <<>>)})

RECURSIVE KnnLoop(_, _, _, _, _, _)
KnnLoop(t, q, k, r, queue, acc) ==
    IF Len(acc) >= k \/ queue = {} THEN acc
    ELSE LET e == PopMin(queue) IN
         IF e.kind = "datum"
         THEN (IF Within(e.dist, r)
               THEN KnnLoop(t, q, k, r, queue \ {e},
                            Append(acc, [datum |-> e.datum, distance |-> e.dist]))
               ELSE acc)
         ELSE KnnLoop(t, q, k, r, (queue \ {e}) \cup Expand(t, q, e.path), acc)

\* QuadTreeSearch::knn_r: the matches within r, nearest first, at most k.
knn_r(t, q, k, r) ==
    IF ~Contains(t.bounds, q) THEN Err("OutOfBounds")
    ELSE Ok(KnnLoop(t, q, k, r, {NodeEntry(t, q, <<>>)}, <<>>))

(***************************************************************************)
(* Searchable for the point quadtree (src/qt/mod.rs).                      *)
(***************************************************************************)
\* A radius that falls back to 0.0.
UnwrapRadius_Zero(r) == IF r.some THEN Finite(r.val) ELSE Finite(0)

\* r.unwrap_or(f64::INFINITY)
UnwrapRadius(r) == IF r.some THEN Finite(r.val) ELSE Infinity

\* An insert that drops the error of a failed insert.
insert_SwallowError(t, d) ==
    IF d.geom.kind # "Point" THEN Err("RequiresPoint")
    ELSE LET res == QuadTreeInsert(t, d) IN
         IF res.ok THEN res ELSE Ok(t)

\* Searchable::insert: only points go into a point quadtree.
insert(t, d) ==
    IF d.geom.kind # "Point" THEN Err("RequiresPoint")
    ELSE LET res == QuadTreeInsert(t, d) IN
         IF res.ok THEN res ELSE Err("CannotAdd")

\* A find that reports every failure of the search as the same error.
find_AnyError(t, cmp, r) ==
    LET res == find_r(t, cmp, UnwrapRadius(r))
    IN IF res.ok THEN res ELSE Err("NoResult")

\* Searchable::find
find(t, cmp, r) == find_r(t, cmp, UnwrapRadius(r))

\* A knn that leaves the radius out.
knn_NoRadius(t, cmp, k, r) == knn_r(t, cmp, k, Infinity)

\* Searchable::knn
knn(t, cmp, k, r) == knn_r(t, cmp, k, UnwrapRadius(r))

\* QtData::new: the defaults of depth and max_children.
DefaultDepth == 10
DefaultChildren == 10

\* The globe, the bounds the sphere flag gives.
SphereBounds == Rect(ToRadians(-180), ToRadians(-90), ToRadians(180), ToRadians(90))

RECURSIVE BuildFrom(_, _, _)
BuildFrom(t, datums, i) ==
    IF i > Len(datums) THEN t
    ELSE LET res == insert(t, datums[i])
         IN BuildFrom(IF res.ok THEN res.val ELSE t, datums, i + 1)

\* The index the drivers search: reference points at 0 and 2 degrees east
\* on the equator.
ReferenceData ==
    <<Datum(PointGeom(Pt(ToRadians(0), ToRadians(0))), 0),
      Datum(PointGeom(Pt(ToRadians(2), ToRadians(0))), 1)>>

ReferenceTree ==
    BuildFrom(NewTree(SphereBounds, DefaultDepth, DefaultChildren), ReferenceData, 1)

(***************************************************************************)
(* The comparison stream (src/bin/proximity/csv/reader.rs).  A record read *)
(* from the csv reader is an error or the fields lng, lat and id as text.  *)
(***************************************************************************)
CsvRecord(lng, lat) == Ok([lng |-> lng, lat |-> lat, id |-> "a"])

\* The records a stream is made of: unreadable, lng missing, lat not a
\* number, on a reference point, between the two, off the globe.
RecordPool ==
    {Err("csv"), CsvRecord("", "0"), CsvRecord("0", "x"),
     CsvRecord("0", "0"), CsvRecord("1", "0"), CsvRecord("200", "0")}

\* str::parse::<f64> on the texts the streams hold.
ParseF64(s) ==
    CASE s = "0" -> Ok(0)
      [] s = "1" -> Ok(1)
      [] s = "200" -> Ok(200)
      [] OTHER -> Err("ParseFloatError")

CannotParseRecord(index, what) ==
    [type |-> "CannotParseRecord", index |-> index, what |-> what]

\* A parse_record that takes 0.0 for a coordinate it cannot parse.
parse_record_Default(index, record, settings) ==
    IF ~record.ok THEN Err([type |-> "CsvParseError", index |-> index, what |-> record.err])
    ELSE LET lng == ParseF64(record.val.lng)
             lat == ParseF64(record.val.lat)
         IN Ok([index |-> index,
                record |-> record.val,
                point |-> Pt(ToRadians(IF lng.ok THEN lng.val ELSE 0),
                             ToRadians(IF lat.ok THEN lat.val ELSE 0)),
                id |-> IF settings.has_id THEN Some(record.val.id) ELSE None])

\* parse_record: the record read, its coordinates parsed and in radians.
parse_record(index, record, settings) ==
    IF ~record.ok THEN Err([type |-> "CsvParseError", index |-> index, what |-> record.err])
    ELSE LET lng == ParseF64(record.val.lng)
             lat == ParseF64(record.val.lat)
         IN IF ~lng.ok THEN Err(CannotParseRecord(index, "Lng"))
            ELSE IF ~lat.ok THEN Err(CannotParseRecord(index, "Lat"))
            ELSE Ok([index |-> index,
                     record |-> record.val,
                     point |-> Pt(ToRadians(lng.val), ToRadians(lat.val)),
                     id |-> IF settings.has_id THEN Some(record.val.id) ELSE None])

(***************************************************************************)
(* One comparison record: search (src/bin/proximity/run.rs) and output.    *)
(***************************************************************************)
FindError(index, e) == [type |-> "FindError", index |-> index, what |-> e]

\* A run_find that takes -k 0 for a single find.
run_find_ZeroAsOne(csv_idx, record, t, settings) ==
    LET parsed == parse_record(csv_idx, record, settings) IN
    IF ~parsed.ok THEN parsed
    ELSE IF ~settings.k.some \/ settings.k = Some(0) \/ settings.k = Some(1)
    THEN LET res == find(t, parsed.val.point, settings.r) IN
         IF res.ok THEN Ok([kind |-> "One", parsed |-> parsed.val, results |-> <<res.val>>])
         ELSE Err(FindError(csv_idx, res.err))
    ELSE LET res == knn(t, parsed.val.point, settings.k.val, settings.r) IN
         IF res.ok THEN Ok([kind |-> "Many", parsed |-> parsed.val, results |-> res.val])
         ELSE Err(FindError(csv_idx, res.err))

\* A run_find that leaves the radius out of the search.
run_find_NoRadius(csv_idx, record, t, settings) ==
    LET parsed == parse_record(csv_idx, record, settings) IN
    IF ~parsed.ok THEN parsed
    ELSE IF ~settings.k.some \/ settings.k = Some(1)
    THEN LET res == find(t, parsed.val.point, None) IN
         IF res.ok THEN Ok([kind |-> "One", parsed |-> parsed.val, results |-> <<res.val>>])
         ELSE Err(FindError(csv_idx, res.err))
    ELSE LET res == knn(t, parsed.val.point, settings.k.val, None) IN
         IF res.ok THEN Ok([kind |-> "Many", parsed |-> parsed.val, results |-> res.val])
         ELSE Err(FindError(csv_idx, res.err))

\* A run_find that searches the k nearest whenever k is given.
run_find_KnnForOne(csv_idx, record, t, settings) ==
    LET parsed == parse_record(csv_idx, record, settings) IN
    IF ~parsed.ok THEN parsed
    ELSE IF ~settings.k.some
    THEN LET res == find(t, parsed.val.point, settings.r) IN
         IF res.ok THEN Ok([kind |-> "One", parsed |-> parsed.val, results |-> <<res.val>>])
         ELSE Err(FindError(csv_idx, res.err))
    ELSE LET res == knn(t, parsed.val.point, settings.k.val, settings.r) IN
         IF res.ok THEN Ok([kind |-> "Many", parsed |-> parsed.val, results |-> res.val])
         ELSE Err(FindError(csv_idx, res.err))

\* run_find: the result of one enumerated record, or its error.
run_find(csv_idx, record, t, settings) ==
    LET parsed == parse_record(csv_idx, record, settings) IN
    IF ~parsed.ok THEN parsed
    ELSE IF ~settings.k.some \/ settings.k = Some(1)
    THEN LET res == find(t, parsed.val.point, settings.r) IN
         IF res.ok THEN Ok([kind |-> "One", parsed |-> parsed.val, results |-> <<res.val>>])
         ELSE Err(FindError(csv_idx, res.err))
    ELSE LET res == knn(t, parsed.val.point, settings.k.val, settings.r) IN
         IF res.ok THEN Ok([kind |-> "Many", parsed |-> parsed.val, results |-> res.val])
         ELSE Err(FindError(csv_idx, res.err))

\* The WriteData of one result of a parsed record.
WriteData(parsed, result) ==
    [index |-> parsed.index, id |-> parsed.id,
     lng |-> parsed.record.lng, lat |-> parsed.record.lat,
     distance |-> result.distance, match_index |-> result.datum.index]

WriteFailed(index) == [type |-> "WriteFailed", index |-> index, what |-> "stdout"]

\* The writer's side: the rows on stdout, the messages on stderr, and whether
\* it panicked (eprintln! panics when stderr cannot be written).
Sink(out, err) == [out |-> out, err |-> err, panicked |-> FALSE]

eprintln(sink, msg, env) ==
    IF sink.panicked THEN sink
    ELSE IF env.stderr_open THEN [sink EXCEPT !.err = Append(sink.err, msg)]
    ELSE [sink EXCEPT !.panicked = TRUE]

\* A write_line that gives up at the first failed write.
write_line_Fatal(sink, data, failed, env) ==
    IF sink.panicked THEN sink
    ELSE IF failed THEN [eprintln(sink, WriteFailed(data.index), env) EXCEPT !.panicked = TRUE]
    ELSE [sink EXCEPT !.out = Append(sink.out, data)]

\* write_line: the row is written, or, when the write fails, reported.
write_line(sink, data, failed, env) ==
    IF sink.panicked THEN sink
    ELSE IF failed THEN eprintln(sink, WriteFailed(data.index), env)
    ELSE [sink EXCEPT !.out = Append(sink.out, data)]

RECURSIVE WriteResults(_, _, _, _, _, _)
WriteResults(sink, parsed, results, fails, env, i) ==
    IF i > Len(results) THEN sink
    ELSE WriteResults(write_line(sink, WriteData(parsed, results[i]), i \in fails, env),
                      parsed, results, fails, env, i + 1)

\* run_output: the rows of a result, or the error on stderr; fails names the
\* results whose write fails.
run_output(sink, output, fails, env) ==
    IF output.ok THEN WriteResults(sink, output.val.parsed, output.val.results, fails, env, 1)
    ELSE eprintln(sink, output.err, env)

\* The writes that may fail while a result is written.
FailSets(output, env) ==
    IF env.stdout_faulty /\ output.ok THEN SUBSET (1..Len(output.val.results)) ELSE {{}}

\* exec_single_thread, the body of its loop: the search of record i ...
single_find(i, record, t, settings) ==
    LET parsed == parse_record(i, record, settings) IN
    IF ~parsed.ok THEN parsed
    ELSE IF ~settings.k.some \/ settings.k = Some(1)
    THEN LET res == find(t, parsed.val.point, settings.r) IN
         IF res.ok THEN Ok([kind |-> "One", parsed |-> parsed.val, results |-> <<res.val>>])
         ELSE Err(FindError(i, res.err))
    ELSE LET res == knn(t, parsed.val.point, settings.k.val, settings.r) IN
         IF res.ok THEN Ok([kind |-> "Many", parsed |-> parsed.val, results |-> res.val])
         ELSE Err(FindError(i, res.err))

\* The WriteData exec_single_thread builds for one result of record i.
SingleWriteData(i, parsed, result) ==
    [index |-> i, id |-> parsed.id,
     lng |-> parsed.record.lng, lat |-> parsed.record.lat,
     distance |-> result.distance, match_index |-> result.datum.index]

\* The library's write_line, which exec_single_thread calls: the row of the
\* output format, or the report of the failed write.
lib_write_line(sink, data, failed, env) ==
    IF sink.panicked THEN sink
    ELSE IF failed THEN eprintln(sink, WriteFailed(data.index), env)
    ELSE [sink EXCEPT !.out = Append(sink.out, data)]

RECURSIVE SingleWriteResults(_, _, _, _, _, _)
SingleWriteResults(sink, parsed, results, fails, env, j) ==
    IF j > Len(results) THEN sink
    ELSE SingleWriteResults(
             lib_write_line(sink, SingleWriteData(parsed.index, parsed, results[j]),
                            j \in fails, env),
             parsed, results, fails, env, j + 1)

\* ... and what it does with the outcome: a row per result, or the error on
\* stderr.
single_output(sink, output, fails, env) ==
    IF output.ok
    THEN SingleWriteResults(sink, output.val.parsed, output.val.results, fails, env, 1)
    ELSE eprintln(sink, output.err, env)

\* exec_single_thread over the first n records, every write succeeding.
RECURSIVE exec_single_thread(_, _, _, _, _)
exec_single_thread(records, t, settings, env, n) ==
    IF n = 0 THEN Sink(<<>>, <<>>)
    ELSE single_output(exec_single_thread(records, t, settings, env, n - 1),
                       single_find(n - 1, records[n], t, settings), {}, env)

(***************************************************************************)
(* State.                                                                  *)
(***************************************************************************)
VARIABLES
    qt,         \* the index
    index,      \* the build of the index: datums inserted, records emitted,
                \* and the last operation on it with its result
    input,      \* the comparison stream: the records the csv reader yields
    settings,   \* the arguments: k, r, whether the input has an id column,
                \* and whether --single-thread was given
    env,        \* whether writes to stdout may fail, whether stderr is open
    pool,       \* the number of threads of the rayon pool
    \* exec_single_thread
    s_next,     \* the position of the loop in the stream (1-based)
    s_sink,     \* its rows, its messages
    \* exec_multi_thread
    scope,      \* "running", then how rayon::scope ended: "returned" or "panicked"
    rtask,      \* the reader/search task: "pending", "running", "done", "panicked"
    wtask,      \* the writer task: "pending", "running", "done", "panicked"
    leaves,     \* folds of the parallel bridge not yet taken by a thread
    folds,      \* threads inside a fold, about to take the next record
    holding,    \* the outputs of run_find that threads are about to send
    fold_panic, \* whether a fold has panicked
    m_next,     \* the position of the shared record iterator (1-based)
    chan,       \* the result channel: outputs sent and not yet received
    m_sink,     \* the writer task's rows and messages
    sent,       \* per input index, how many outputs were sent for it
    handled     \* per input index, how many outputs run_output was given

vars == <<qt, index, input, settings, env, pool, s_next, s_sink, scope, rtask, wtask,
          leaves, folds, holding, fold_panic, m_next, chan, m_sink, sent, handled>>

config == <<qt, input, settings, env, pool>>
single == <<s_next, s_sink>>
multi == <<scope, rtask, wtask, leaves, folds, holding, fold_panic, m_next, chan,
           m_sink, sent, handled>>

RECURSIVE SeqsUpTo(_, _)
SeqsUpTo(S, n) ==
    IF n = 0 THEN {<<>>}
    ELSE LET shorter == SeqsUpTo(S, n - 1)
         IN shorter \cup {Append(q, x) : q \in {p \in shorter : Len(p) = n - 1}, x \in S}

\* -k absent, 0, 1 and 2 (the reference tree holds two datums); -r absent and 0.
KValues == {None, Some(0), Some(1), Some(2)}
RValues == {None, Some(0)}

Reliable == [stdout_faulty |-> FALSE, stderr_open |-> TRUE]

PipelineStart ==
    /\ s_next = 1
    /\ s_sink = Sink(<<>>, <<>>)
    /\ scope = "running"
    /\ rtask = "pending"
    /\ wtask = "pending"
    /\ leaves = 0
    /\ folds = 0
    /\ holding = {}
    /\ fold_panic = FALSE
    /\ m_next = 1
    /\ chan = <<>>
    /\ m_sink = Sink(<<>>, <<>>)
    /\ sent = [i \in 0..(Len(input) - 1) |-> 0]
    /\ handled = [i \in 0..(Len(input) - 1) |-> 0]

Built(datums) == [inserted |-> datums, emitted |-> Len(datums), last |-> [op |-> "none"]]

InitRun(records) ==
    /\ qt = ReferenceTree
    /\ index = Built(ReferenceData)
    /\ input \in SeqsUpTo(records, MaxRecords)
    /\ settings \in [k : KValues, r : RValues, has_id : BOOLEAN, single_thread : BOOLEAN]
    /\ pool \in 1..MaxThreads
    /\ PipelineStart

\* Stdout and stderr work.
Init == InitRun(RecordPool) /\ env = Reliable

\* Writes to stdout may fail, stderr may be closed, or both.
FaultyEnvs == [stdout_faulty : BOOLEAN, stderr_open : BOOLEAN] \ {Reliable}

\* The records of the streams read under them: unreadable, on a reference
\* point, between the two.
FaultyPool == {Err("csv"), CsvRecord("0", "0"), CsvRecord("1", "0")}

InitFaulty == InitRun(FaultyPool) /\ env \in FaultyEnvs

(***************************************************************************)
(* exec_single_thread: one iteration of the loop over the records.         *)
(***************************************************************************)
\* A loop that walks the records from the last to the first.
SingleIter_Reversed ==
    /\ settings.single_thread
    /\ s_next <= Len(input)
    /\ ~s_sink.panicked
    /\ LET i == Len(input) - s_next
           output == single_find(i, input[i + 1], qt, settings)
       IN \E fails \in FailSets(output, env) :
              s_sink' = single_output(s_sink, output, fails, env)
    /\ s_next' = s_next + 1
    /\ UNCHANGED <<config, index, multi>>

SingleIter ==
    /\ settings.single_thread
    /\ s_next <= Len(input)
    /\ ~s_sink.panicked
    /\ LET output == single_find(s_next - 1, input[s_next], qt, settings)
       IN \E fails \in FailSets(output, env) :
              s_sink' = single_output(s_sink, output, fails, env)
    /\ s_next' = s_next + 1
    /\ UNCHANGED <<config, index, multi>>

(***************************************************************************)
(* exec_multi_thread.  The threads of the pool are alike: what is kept is  *)
(* how many are in which place.                                            *)
(***************************************************************************)
Busy == folds + Cardinality(holding) + (IF wtask = "running" THEN 1 ELSE 0)
Idle == pool - Busy

\* Senders live in the reader task until its last fold has ended.
SendersDropped == rtask \in {"done", "panicked"}

\* The receiver lives in the writer task until that has ended.
ReceiverAlive == wtask \in {"pending", "running"}

\* The reader task after a fold ended: over when no fold is left or running.
ReaderAfter(lv, fl, hd, panic) ==
    IF lv = 0 /\ fl = 0 /\ hd = {} THEN (IF panic THEN "panicked" ELSE "done")
    ELSE "running"

\* A free thread takes the reader task and enters the first fold of the bridge.
StartReader ==
    /\ ~settings.single_thread
    /\ scope = "running" /\ rtask = "pending" /\ Idle > 0
    /\ rtask' = "running"
    /\ leaves' = pool - 1
    /\ folds' = folds + 1
    /\ UNCHANGED <<config, index, single, scope, wtask, holding, fold_panic, m_next, chan,
                   m_sink, sent, handled>>

\* A free thread steals a fold of the bridge.
StealFold ==
    /\ rtask = "running" /\ leaves > 0 /\ Idle > 0
    /\ leaves' = leaves - 1
    /\ folds' = folds + 1
    /\ UNCHANGED <<config, index, single, scope, rtask, wtask, holding, fold_panic, m_next,
                   chan, m_sink, sent, handled>>

\* A fold that splits the results of a record into one output each.
TakeRecord_PerResult ==
    /\ folds > 0 /\ m_next <= Len(input)
    /\ LET output == run_find(m_next - 1, input[m_next], qt, settings)
           split == IF output.ok
                    THEN {Ok([output.val EXCEPT !.results = <<output.val.results[j]>>]) :
                             j \in 1..Len(output.val.results)}
                    ELSE {output}
       IN holding' = holding \cup {[index |-> m_next - 1, output |-> o] : o \in split}
    /\ folds' = folds - 1
    /\ m_next' = m_next + 1
    /\ UNCHANGED <<config, index, single, scope, rtask, wtask, leaves, fold_panic, chan,
                   m_sink, sent, handled>>

\* A fold takes the next enumerated record and runs run_find on it.
TakeRecord ==
    /\ folds > 0 /\ m_next <= Len(input)
    /\ holding' = holding \cup
           {[index |-> m_next - 1,
             output |-> run_find(m_next - 1, input[m_next], qt, settings)]}
    /\ folds' = folds - 1
    /\ m_next' = m_next + 1
    /\ UNCHANGED <<config, index, single, scope, rtask, wtask, leaves, fold_panic, chan,
                   m_sink, sent, handled>>

\* A fold finds the iterator exhausted and ends.
EndFold ==
    /\ folds > 0 /\ m_next > Len(input)
    /\ folds' = folds - 1
    /\ rtask' = ReaderAfter(leaves, folds - 1, holding, fold_panic)
    /\ UNCHANGED <<config, index, single, scope, wtask, leaves, holding, fold_panic, m_next,
                   chan, m_sink, sent, handled>>

\* A send that ignores the error of a closed channel and goes on.
SendOutput_Ignore(h) ==
    /\ h \in holding
    /\ holding' = holding \ {h}
    /\ folds' = folds + 1
    /\ IF ReceiverAlive
       THEN /\ chan' = Append(chan, h)
            /\ sent' = [sent EXCEPT ![h.index] = @ + 1]
       ELSE UNCHANGED <<chan, sent>>
    /\ UNCHANGED <<config, index, single, scope, rtask, wtask, leaves, fold_panic, m_next,
                   m_sink, handled>>

\* A send on a sync_channel with room for one output: it waits while the
\* channel is full.
SendOutput_Bounded(h) ==
    /\ h \in holding
    /\ ReceiverAlive => chan = <<>>
    /\ holding' = holding \ {h}
    /\ IF ReceiverAlive
       THEN /\ chan' = Append(chan, h)
            /\ sent' = [sent EXCEPT ![h.index] = @ + 1]
            /\ folds' = folds + 1
            /\ UNCHANGED <<rtask, fold_panic>>
       ELSE /\ fold_panic' = TRUE
            /\ rtask' = ReaderAfter(leaves, folds, holding \ {h}, TRUE)
            /\ UNCHANGED <<chan, sent, folds>>
    /\ UNCHANGED <<config, index, single, scope, wtask, leaves, m_next, m_sink, handled>>

\* s.send(output).expect(..): the output is queued, or, with the receiver
\* gone, the fold panics.
SendOutput(h) ==
    /\ h \in holding
    /\ holding' = holding \ {h}
    /\ IF ReceiverAlive
       THEN /\ chan' = Append(chan, h)
            /\ sent' = [sent EXCEPT ![h.index] = @ + 1]
            /\ folds' = folds + 1
            /\ UNCHANGED <<rtask, fold_panic>>
       ELSE /\ fold_panic' = TRUE
            /\ rtask' = ReaderAfter(leaves, folds, holding \ {h}, TRUE)
            /\ UNCHANGED <<chan, sent, folds>>
    /\ UNCHANGED <<config, index, single, scope, wtask, leaves, m_next, m_sink, handled>>

\* A free thread takes the writer task.
StartWriter ==
    /\ ~settings.single_thread
    /\ scope = "running" /\ wtask = "pending" /\ Idle > 0
    /\ wtask' = "running"
    /\ UNCHANGED <<config, index, single, scope, rtask, leaves, folds, holding, fold_panic,
                   m_next, chan, m_sink, sent, handled>>

\* The writer receives an output and gives it to run_output.
Receive ==
    /\ wtask = "running" /\ chan # <<>>
    /\ LET h == Head(chan) IN
       \E fails \in FailSets(h.output, env) :
          LET after == run_output(m_sink, h.output, fails, env)
          IN /\ m_sink' = after
             /\ handled' = [handled EXCEPT ![h.index] = @ + 1]
             /\ IF after.panicked
                THEN wtask' = "panicked" /\ chan' = <<>>
                ELSE wtask' = wtask /\ chan' = Tail(chan)
    /\ UNCHANGED <<config, index, single, scope, rtask, leaves, folds, holding, fold_panic,
                   m_next, sent>>

\* A writer that drains with try_iter: it ends as soon as the channel is empty.
EndWriter_TryIter ==
    /\ wtask = "running" /\ chan = <<>>
    /\ wtask' = "done"
    /\ UNCHANGED <<config, index, single, scope, rtask, leaves, folds, holding, fold_panic,
                   m_next, chan, m_sink, sent, handled>>

\* The channel is empty and every sender is gone: the writer's loop ends.
EndWriter ==
    /\ wtask = "running" /\ chan = <<>> /\ SendersDropped
    /\ wtask' = "done"
    /\ UNCHANGED <<config, index, single, scope, rtask, leaves, folds, holding, fold_panic,
                   m_next, chan, m_sink, sent, handled>>

\* Both tasks are over: rayon::scope returns, or passes a task's panic on.
ScopeEnd ==
    /\ scope = "running"
    /\ rtask \in {"done", "panicked"} /\ wtask \in {"done", "panicked"}
    /\ scope' = IF rtask = "panicked" \/ wtask = "panicked" THEN "panicked" ELSE "returned"
    /\ UNCHANGED <<config, index, single, rtask, wtask, leaves, folds, holding, fold_panic,
                   m_next, chan, m_sink, sent, handled>>

MultiNext ==
    \/ StartReader
    \/ StealFold
    \/ TakeRecord
    \/ EndFold
    \/ \E h \in holding : SendOutput(h)
    \/ StartWriter
    \/ Receive
    \/ EndWriter
    \/ ScopeEnd

Next ==
    \/ SingleIter
    \/ MultiNext

Spec == Init /\ [][Next]_vars

SpecFaulty == InitFaulty /\ [][Next]_vars

(***************************************************************************)
(* The index on its own: a tree over a small grid is built by inserts and  *)
(* then searched for one comparison point.                                 *)
(***************************************************************************)
GridBounds == Rect(0, 0, 4, 4)

\* Inside, on the split lines, on the corner, and outside the bounds.
GridPoints == {Pt(0, 0), Pt(1, 1), Pt(2, 2), Pt(3, 1), Pt(4, 4), Pt(5, 1)}

GridGeoms == {PointGeom(p) : p \in GridPoints} \cup {LineGeom(Pt(1, 1), Pt(3, 3))}

QueryPoints == {Pt(0, 0), Pt(2, 1), Pt(3, 3), Pt(5, 1)}

\* (max_depth, max_children): deep and narrow, shallow and wide.
TreeShapes == {<<2, 1>>, <<1, 2>>}

\* QtData: the discipline, depth and max_children the tree is asked for.
QtData(is_bounds, depth, max_children) ==
    [is_bounds |-> is_bounds, depth |-> depth, max_children |-> max_children]

\* make_dyn_qt: the empty quadtree of the options; Discipline is the kind of
\* tree it picks.
make_dyn_qt(bounds, opts) == NewTree(bounds, opts.depth, opts.max_children)

Discipline(opts) == IF opts.is_bounds THEN "Bounds" ELSE "Point"

\* A make_dyn_qt that hands max_children and depth over in each other's place.
InitIndex_Swapped ==
    /\ \E shape \in TreeShapes :
          /\ qt = NewTree(GridBounds, shape[2], shape[1])
          /\ index = [inserted |-> <<>>, emitted |-> 0, last |-> [op |-> "none"],
                      opts |-> QtData(FALSE, shape[1], shape[2])]
    /\ env = Reliable
    /\ input = <<>>
    /\ settings = [k |-> None, r |-> None, has_id |-> FALSE, single_thread |-> TRUE]
    /\ pool = 1
    /\ PipelineStart

InitIndex ==
    /\ \E shape \in TreeShapes :
          /\ qt = make_dyn_qt(GridBounds, QtData(FALSE, shape[1], shape[2]))
          /\ index = [inserted |-> <<>>, emitted |-> 0, last |-> [op |-> "none"],
                      opts |-> QtData(FALSE, shape[1], shape[2])]
    /\ env = Reliable
    /\ input = <<>>
    /\ settings = [k |-> None, r |-> None, has_id |-> FALSE, single_thread |-> TRUE]
    /\ pool = 1
    /\ PipelineStart

\* The builder inserts the datum of the next record; a failed insert is
\* reported and the build goes on.
Searched == index.last.op \in {"find", "knn"}

\* A builder that gives every datum the index 0.
InsertDatum_NoEnumerate(geom) ==
    /\ ~Searched
    /\ index.emitted < MaxInserts
    /\ LET d == Datum(geom, 0)
           res == insert(qt, d)
       IN /\ qt' = IF res.ok THEN res.val ELSE qt
          /\ index' = [inserted |-> IF res.ok THEN Append(index.inserted, d)
                                              ELSE index.inserted,
                        emitted |-> index.emitted + 1,
                        opts |-> index.opts,
                        last |-> [op |-> "insert", datum |-> d, ok |-> res.ok,
                                  err |-> IF res.ok THEN "" ELSE res.err]]
    /\ UNCHANGED <<input, settings, env, pool, single, multi>>

InsertDatum(geom) ==
    /\ ~Searched
    /\ index.emitted < MaxInserts
    /\ LET d == Datum(geom, index.emitted)
           res == insert(qt, d)
       IN /\ qt' = IF res.ok THEN res.val ELSE qt
          /\ index' = [inserted |-> IF res.ok THEN Append(index.inserted, d)
                                              ELSE index.inserted,
                        emitted |-> index.emitted + 1,
                        opts |-> index.opts,
                        last |-> [op |-> "insert", datum |-> d, ok |-> res.ok,
                                  err |-> IF res.ok THEN "" ELSE res.err]]
    /\ UNCHANGED <<input, settings, env, pool, single, multi>>

FindQuery(q, r) ==
    /\ ~Searched
    /\ index' = [index EXCEPT !.last = [op |-> "find", q |-> q, r |-> r,
                                        res |-> find(qt, q, r)]]
    /\ UNCHANGED <<config, single, multi>>

KnnQuery(q, k, r) ==
    /\ ~Searched
    /\ index' = [index EXCEPT !.last = [op |-> "knn", q |-> q, k |-> k, r |-> r,
                                        res |-> knn(qt, q, k, r)]]
    /\ UNCHANGED <<config, single, multi>>

GridRadii == {None, Some(0), Some(2)}

NextIndex ==
    \/ \E geom \in GridGeoms : InsertDatum(geom)
    \/ \E q \in QueryPoints, r \in GridRadii : FindQuery(q, r)
    \/ \E q \in QueryPoints, k \in 0..MaxK, r \in GridRadii : KnnQuery(q, k, r)

SpecIndex == InitIndex /\ [][NextIndex]_vars

\* The same index over a dataset made for ties: the points at distance 1
\* around (2, 1), a far one, and a query that lies on a datum.
TieGeoms == {PointGeom(Pt(1, 1)), PointGeom(Pt(3, 1)), PointGeom(Pt(2, 2)), PointGeom(Pt(0, 0))}

TieQueries == {Pt(2, 1), Pt(2, 2)}

NextTies ==
    \/ \E geom \in TieGeoms : InsertDatum(geom)
    \/ \E q \in TieQueries, k \in 0..MaxK, r \in GridRadii : KnnQuery(q, k, r)

SpecTies == InitIndex /\ [][NextTies]_vars

(***************************************************************************)
(* Building the index from a source file.  A file is a sequence of         *)
(* records; a record is unreadable, or has no geometry the index takes, or *)
(* is a shape of one or several parts.  Each builder turns a record into   *)
(* items, (geometry, index) or an error, and inserts the items one by one. *)
(***************************************************************************)
MinOf(S) == CHOOSE v \in S : \A w \in S : v <= w
MaxOf(S) == CHOOSE v \in S : \A w \in S : v >= w

\* The axis-aligned bounding box of a datum's geometry.
BBox(d) ==
    LET xs == {d.geom.pts[i].x : i \in DOMAIN d.geom.pts}
        ys == {d.geom.pts[i].y : i \in DOMAIN d.geom.pts}
    IN Rect(MinOf(xs), MinOf(ys), MaxOf(xs), MaxOf(ys))

ContainsRect(outer, inner) ==
    /\ Contains(outer, Pt(inner.minx, inner.miny))
    /\ Contains(outer, Pt(inner.maxx, inner.maxy))

\* Bounds discipline: the datum goes to the deepest node whose bounds hold
\* its bounding box; a box that spans the children of a subdivided node
\* stays at that node.
RECURSIVE BoundsInsertAt(_, _, _, _)
RECURSIVE BoundsInsertAll(_, _, _, _, _)
BoundsInsertAt(t, nodes, path, d) ==
    LET rect == NodeRect(t.bounds, path, 1)
        box == BBox(d)
        c == Quadrant(rect, Pt(box.maxx, box.maxy))
    IN IF nodes[path].internal
       THEN (IF ContainsRect(ChildRect(rect, c), box)
             THEN BoundsInsertAt(t, nodes, Append(path, c), d)
             ELSE [nodes EXCEPT ![path].data = Append(@, d)])
       ELSE LET data == Append(nodes[path].data, d) IN
            IF Len(data) > t.max_children /\ Len(path) < t.max_depth
            THEN BoundsInsertAll(t, Subdivide(nodes, path), path, data, 1)
            ELSE [nodes EXCEPT ![path] = Leaf(data)]

BoundsInsertAll(t, nodes, path, data, i) ==
    IF i > Len(data) THEN nodes
    ELSE BoundsInsertAll(t, BoundsInsertAt(t, nodes, path, data[i]), path, data, i + 1)

\* QuadTree::insert of the bounds quadtree.
BoundsQuadTreeInsert(t, d) ==
    IF ~ContainsRect(t.bounds, BBox(d)) THEN Err("OutOfBounds")
    ELSE Ok([t EXCEPT !.nodes = BoundsInsertAt(t, t.nodes, <<>>, d),
                      !.size = t.size + 1])

\* Searchable::insert of the bounds quadtree: every geometry is taken.
bounds_insert(t, d) ==
    LET res == BoundsQuadTreeInsert(t, d) IN
    IF res.ok THEN res ELSE Err("CannotAdd")

\* Box<dyn Searchable>::insert: the insert of the tree's discipline.
dyn_insert(discipline, t, d) ==
    IF discipline = "Bounds" THEN bounds_insert(t, d) ELSE insert(t, d)

\* The records of a source file.
Unreadable == [kind |-> "Unreadable", parts |-> <<>>]
NullShape == [kind |-> "NullShape", parts |-> <<>>]
Shape(kind, parts) == [kind |-> kind, parts |-> parts]

SourceRecords ==
    {Unreadable, NullShape,
     Shape("Point", <<PointGeom(Pt(1, 1))>>),
     Shape("Point", <<PointGeom(Pt(5, 1))>>),
     Shape("Location", <<PointGeom(Pt(3, 1))>>),
     Shape("Polyline", <<LineGeom(Pt(0, 0), Pt(1, 1))>>),
     Shape("Multipoint", <<PointGeom(Pt(3, 3)), PointGeom(Pt(3, 1))>>),
     Shape("Polyline", <<LineGeom(Pt(1, 1), Pt(3, 3)), LineGeom(Pt(3, 0), Pt(4, 1))>>)}

Sources == {"make_qt", "shp", "geojson", "kml", "csv"}

\* What a file of each kind can hold: a GeoJSON or KML file that parses has
\* no unreadable record, and a CSV row is a point or nothing.
ValidRecord(source, rec) ==
    CASE source = "kml" -> rec.kind # "Unreadable"
      [] source = "geojson" -> rec.kind \notin {"Unreadable", "Location"}
      [] source = "csv" -> rec.kind \in {"Unreadable", "NullShape", "Point"}
      [] OTHER -> rec.kind # "Location"

Item(geom, i) == Ok([geom |-> geom, index |-> i])

\* to_radians_in_place: every vertex from degrees to radians.
to_radians(geom) ==
    [geom EXCEPT !.pts = [n \in DOMAIN geom.pts |->
                            Pt(ToRadians(geom.pts[n].x), ToRadians(geom.pts[n].y))]]

\* add_record: a record that was read is stored and gets the number of
\* records stored before it; stored is the length of the records vector.
add_record(stored, rec) ==
    IF rec.kind = "Unreadable" THEN [res |-> Err("read"), stored |-> stored]
    ELSE [res |-> Ok([shape |-> rec, index |-> stored]), stored |-> stored + 1]

point_to_iter(shape, i) == <<Item(to_radians(shape.parts[1]), i)>>

mls_to_iter(shape, i) ==
    [n \in 1..Len(shape.parts) |-> Item(to_radians(shape.parts[n]), i)]

\* A flattening that numbers the parts of a shape from the record's index on.
mp_to_iter_PartIndex(shape, i) ==
    [n \in 1..Len(shape.parts) |-> Item(to_radians(shape.parts[n]), i + n - 1)]

mp_to_iter(shape, i) ==
    [n \in 1..Len(shape.parts) |-> Item(to_radians(shape.parts[n]), i)]

\* convert_shapes: the items of a record of a shapefile.
convert_shapes(shape_index) ==
    IF ~shape_index.ok THEN <<Err("shape")>>
    ELSE LET shape == shape_index.val.shape
             i == shape_index.val.index
         IN CASE shape.kind = "Point" -> point_to_iter(shape, i)
              [] shape.kind = "Polyline" -> mls_to_iter(shape, i)
              [] shape.kind = "Multipoint" -> mp_to_iter(shape, i)
              [] OTHER -> <<Err("shape")>>

\* convert_geom: the geometries of a GeoJSON geometry.
convert_geom(g) == [n \in 1..Len(g.parts) |-> Ok(to_radians(g.parts[n]))]

\* map_feature: the items of a feature, numbered by enumerate.
map_feature(i, f) ==
    IF f.kind = "NullShape" THEN <<Err("Feature does not have a geometry")>>
    ELSE LET geoms == convert_geom(f) IN
         [n \in 1..Len(geoms) |-> Item(geoms[n].val, i)]

\* convert_kml_geom: the geometry of one member of a MultiGeometry.
convert_kml_geom(g) == Ok(to_radians(g))

\* map_kml_item: the datums of a KML item, numbered by enumerate.
map_kml_item(i, item) ==
    CASE item.kind = "NullShape" -> <<Err("Placemark does not have any geometry")>>
      [] item.kind = "Point" -> <<Item(to_radians(item.parts[1]), i)>>
      [] item.kind = "Location" ->
            \* geo::point! { x: l.latitude, y: l.longitude }
            <<Item(PointGeom(Pt(item.parts[1].pts[1].y, item.parts[1].pts[1].x)), i)>>
      [] OTHER -> [n \in 1..Len(item.parts) |->
                      LET res == convert_kml_geom(item.parts[n]) IN
                      IF res.ok THEN Item(res.val, i) ELSE res]

\* build_csv: the datum of a row, numbered by enumerate.
csv_datum(i, rec) ==
    CASE rec.kind = "Unreadable" -> <<Err("CannotParseRecord")>>
      [] rec.kind = "NullShape" -> <<Err("CannotParseRecord")>>
      [] OTHER -> <<Item(to_radians(rec.parts[1]), i)>>

\* The state of a build: the tree and the builder's bookkeeping.
Build(t, b) == [qt |-> t, index |-> b]

Report(st, msg) == Build(st.qt, [st.index EXCEPT !.err = Append(@, msg)])

\* The insert of one item and its report; rec is the position of the
\* record the item came from.
InsertItem(st, discipline, item, rec) ==
    LET d == Datum(item.val.geom, item.val.index)
        res == dyn_insert(discipline, st.qt, d)
    IN IF res.ok
       THEN Build(res.val, [st.index EXCEPT !.inserted = Append(@, [datum |-> d, rec |-> rec])])
       ELSE Report(st, "Cannot insert datum into qt")

\* The loop body of make_qt (src/make_qt.rs): the tree is a bounds quadtree
\* and matches!(Geometry::Point::<f64>, _) holds of every shape.
make_qt_item(st, item, rec) ==
    IF item.ok
    THEN (IF st.index.opts.is_bounds
          THEN InsertItem(st, "Bounds", item, rec)
          ELSE IF TRUE
               THEN InsertItem(st, "Bounds", item, rec)
               ELSE Report(st, "Invalid shape"))
    ELSE Report(st, "Could not read shape")

\* The loop body of shp_build.
shp_item(st, item, rec) ==
    IF item.ok
    THEN (IF st.index.opts.is_bounds
          THEN InsertItem(st, Discipline(st.index.opts), item, rec)
          ELSE IF item.val.geom.kind = "Point"
               THEN InsertItem(st, Discipline(st.index.opts), item, rec)
               ELSE Report(st, "Invalid shape"))
    ELSE Report(st, "Could not read shape")

\* The loop body of geojson_build and of kml_build.
dyn_item(st, item, rec) ==
    IF item.ok THEN InsertItem(st, Discipline(st.index.opts), item, rec)
    ELSE Report(st, "Could not read shape")

\* The loop body of build_csv: the error of the row or of the insert is
\* printed.
csv_item(st, item, rec) ==
    IF item.ok THEN InsertItem(st, Discipline(st.index.opts), item, rec)
    ELSE Report(st, item.err)

BuildItem(source, st, item, rec) ==
    CASE source = "make_qt" -> make_qt_item(st, item, rec)
      [] source = "shp" -> shp_item(st, item, rec)
      [] source = "csv" -> csv_item(st, item, rec)
      [] OTHER -> dyn_item(st, item, rec)

RECURSIVE BuildItems(_, _, _, _, _)
BuildItems(source, st, items, rec, n) ==
    IF n > Len(items) THEN st
    ELSE BuildItems(source, BuildItem(source, st, items[n], rec), items, rec, n + 1)

BuildShape == QtData(FALSE, 1, 1)

\* The bounds of the build, given in degrees and kept in radians.
BuildBounds == Rect(ToRadians(0), ToRadians(0), ToRadians(4), ToRadians(4))

InitBuild ==
    /\ \E source \in Sources, is_bounds \in BOOLEAN :
       \E file \in SeqsUpTo({r \in SourceRecords : ValidRecord(source, r)}, MaxRecords) :
          LET opts == [BuildShape EXCEPT !.is_bounds = is_bounds] IN
          /\ qt = make_dyn_qt(BuildBounds, opts)
          /\ index = [source |-> source, opts |-> opts, file |-> file, pos |-> 0,
                      stored |-> 0, inserted |-> <<>>, err |-> <<>>]
    /\ env = Reliable
    /\ input = <<>>
    /\ settings = [k |-> None, r |-> None, has_id |-> FALSE, single_thread |-> TRUE]
    /\ pool = 1
    /\ PipelineStart

\* The record the builder reads next, and the build after its items.
NextRecord == index.file[index.pos + 1]

BuildStep(source, items, stored) ==
    /\ index.source = source
    /\ index.pos < Len(index.file)
    /\ LET st == BuildItems(source, Build(qt, index), items, index.pos, 1) IN
       /\ qt' = st.qt
       /\ index' = [st.index EXCEPT !.pos = @ + 1, !.stored = stored]
    /\ UNCHANGED <<input, settings, env, pool, single, multi>>

\* make_qt (src/make_qt.rs:86-110), one record.
MakeQt ==
    /\ index.pos < Len(index.file)
    /\ LET added == add_record(index.stored, NextRecord) IN
       BuildStep("make_qt", convert_shapes(added.res), added.stored)

\* shp_build, one record.
ShpBuild ==
    /\ index.pos < Len(index.file)
    /\ LET added == add_record(index.stored, NextRecord) IN
       BuildStep("shp", convert_shapes(added.res), added.stored)

\* geojson_build over a feature collection, one feature.
GeojsonBuild ==
    /\ index.pos < Len(index.file)
    /\ BuildStep("geojson", map_feature(index.pos, NextRecord), index.stored)

\* kml_build, one item.
KmlBuild ==
    /\ index.pos < Len(index.file)
    /\ BuildStep("kml", map_kml_item(index.pos, NextRecord), index.stored)

\* build_csv, one row.
BuildCsv ==
    /\ index.pos < Len(index.file)
    /\ BuildStep("csv", csv_datum(index.pos, NextRecord), index.stored)

NextBuild ==
    \/ MakeQt
    \/ ShpBuild
    \/ GeojsonBuild
    \/ KmlBuild
    \/ BuildCsv

SpecBuild == InitBuild /\ [][NextBuild]_vars

(***************************************************************************)
(* Metadata projection.  A source record is a function from the names of   *)
(* its fields to their values; the builder keeps it as the datum's base    *)
(* data and the writer projects the datum over the requested fields.       *)
(***************************************************************************)
MaxFields == 2

FieldNames == {"name", "Name", "pop"}

FieldValue(h) == CASE h = "name" -> "Ann" [] h = "Name" -> "Bob" [] OTHER -> "7"

\* The records of the sources: no two fields of a record differ by case only.
MetaRecords ==
    {[h \in hs |-> FieldValue(h)] : hs \in {{}, {"name"}, {"Name"}, {"pop"}, {"Name", "pop"}}}

\* str::to_lowercase over the field names.
to_lowercase(h) ==
    CASE h = "Name" -> "name"
      [] h = "LNG" -> "lng"
      [] h = "Lat" -> "lat"
      [] OTHER -> h

\* HashMap::get: the entry of a key, if any.
Get(map, key) == IF key \in DOMAIN map THEN Some(map[key]) ELSE None

unwrap_or_default(o) == IF o.some THEN o.val ELSE ""

\* make_record_map: the row as a map from the lowercased headers.
make_record_map(record) ==
    [k \in {to_lowercase(h) : h \in DOMAIN record} |->
        record[CHOOSE h \in DOMAIN record : to_lowercase(h) = k]]

\* csv_field_val
csv_field_val(record, field) == unwrap_or_default(Get(record, field))

\* convert_dbase_field_opt over character fields.
convert_dbase_field_opt(f) == unwrap_or_default(f)

shp_field_val(record, field) == convert_dbase_field_opt(Get(record, field))

\* map_json_value over string values.
map_json_value(val) == val

json_field_val(feature, field) ==
    IF feature.properties.some
    THEN (LET val == Get(feature.properties.val, field) IN
          IF val.some THEN map_json_value(val.val) ELSE "")
    ELSE ""

\* A placemark keeps its name apart from its attributes.
Placemark(record) ==
    [kind |-> "Placemark", name |-> Get(record, "name"),
     attrs |-> [h \in DOMAIN record \ {"name"} |-> record[h]]]

make_string(attrs, field) == unwrap_or_default(Get(attrs, field))

\* extract_field_value
extract_field_value(field, kml) ==
    IF kml.kind = "Placemark"
    THEN (IF field = "name" THEN unwrap_or_default(kml.name)
          ELSE make_string(kml.attrs, field))
    ELSE make_string(kml.attrs, field)

kml_field_val(kml, field) == extract_field_value(field, kml)

Variants == {"Shp", "Json", "Kml", "Csv", "None"}

\* The base data each builder keeps of a record.
BaseData(variant, record) ==
    CASE variant = "Shp" -> [variant |-> "Shp", record |-> record]
      [] variant = "Json" ->
            [variant |-> "Json",
             feature |-> [properties |-> IF DOMAIN record = {} THEN None ELSE Some(record)]]
      [] variant = "Kml" -> [variant |-> "Kml", kml |-> Placemark(record)]
      [] variant = "Csv" -> [variant |-> "Csv", record |-> make_record_map(record)]
      [] OTHER -> [variant |-> "None"]

\* BaseData::iter_str
iter_str(base, fields) ==
    IF fields.some
    THEN [i \in 1..Len(fields.val) |->
            CASE base.variant = "Shp" -> shp_field_val(base.record, fields.val[i])
              [] base.variant = "Json" -> json_field_val(base.feature, fields.val[i])
              [] base.variant = "Kml" -> kml_field_val(base.kml, fields.val[i])
              [] base.variant = "Csv" -> csv_field_val(base.record, fields.val[i])
              [] OTHER -> ""]
    ELSE <<>>

\* Datum::meta_iter
meta_iter(datum, fields) == iter_str(datum.base, fields)

\* KmlWithMeta::make_search_result: the meta of a found datum.
make_search_result(datum, fields) ==
    IF fields.some /\ datum.meta.some
    THEN [i \in 1..Len(fields.val) |-> extract_field_value(fields.val[i], datum.meta.val)]
    ELSE IF fields.some THEN [i \in 1..Len(fields.val) |-> ""]
    ELSE <<>>

\* The header row of the library's writer (src/csv/writer.rs), which has a
\* match_id column.
make_csv_writer_MatchId(id_label, fields) ==
    <<id_label, "lng", "lat", "distance", "match_index", "match_id">>
        \o (IF fields.some THEN fields.val ELSE <<>>)

\* make_csv_writer: the header row, the base fields and then --fields.
make_csv_writer(id_label, fields) ==
    <<id_label, "lng", "lat", "distance", "match_index">>
        \o (IF fields.some THEN fields.val ELSE <<>>)

\* Base fields that start with the record's index whether it has an id or not.
base_fields_Position(parsed, distance, datum) ==
    <<ToString(parsed.index), parsed.record.lng, parsed.record.lat,
      ToString(distance), ToString(datum.index)>>

\* write_line, its base fields: the id of the record, or its index when it
\* has none, the lng and lat as read, the distance and the datum's index.
base_fields(parsed, distance, datum) ==
    <<IF parsed.id.some THEN parsed.id.val ELSE ToString(parsed.index),
      parsed.record.lng, parsed.record.lat,
      ToString(distance), ToString(datum.index)>>

\* write_line: the record written, base fields chained with meta_iter.
write_record(parsed, distance, datum, fields) ==
    base_fields(parsed, distance, datum) \o meta_iter(datum, fields)

InitProject ==
    /\ qt = NewTree(GridBounds, DefaultDepth, DefaultChildren)
    /\ \E variant \in Variants, record \in MetaRecords,
          fields \in {None} \cup {Some(f) : f \in SeqsUpTo(FieldNames, MaxFields)},
          i \in 0..(MaxRecords - 1), id \in {None, Some("a")} :
          index = [variant |-> variant, record |-> record, fields |-> fields,
                   base |-> BaseData(variant, record), out |-> None,
                   via |-> "none",
                   parsed |-> [index |-> i, id |-> id, record |-> [lng |-> "1", lat |-> "0"]],
                   head |-> None, row |-> None]
    /\ env = Reliable
    /\ input = <<>>
    /\ settings = [k |-> None, r |-> None, has_id |-> FALSE, single_thread |-> TRUE]
    /\ pool = 1
    /\ PipelineStart

\* write_line projects the matched datum over settings.fields.
MetaIter ==
    /\ ~index.out.some
    /\ index' = [index EXCEPT !.out = Some(meta_iter([base |-> index.base], index.fields)),
                            !.via = "meta_iter"]
    /\ UNCHANGED <<qt, input, settings, env, pool, single, multi>>

\* A KML search builds the meta of its result; a datum without a KML item
\* has no meta.
KmlFind ==
    /\ ~index.out.some
    /\ index.variant \in {"Kml", "None"}
    /\ LET meta == IF index.variant = "Kml" THEN Some(index.base.kml) ELSE None IN
       index' = [index EXCEPT !.out = Some(make_search_result([meta |-> meta], index.fields)),
                               !.via = "make_search_result"]
    /\ UNCHANGED <<qt, input, settings, env, pool, single, multi>>

\* make_csv_writer writes the header row.
WriteHeader ==
    /\ ~index.head.some
    /\ index' = [index EXCEPT !.head = Some(make_csv_writer("id", index.fields))]
    /\ UNCHANGED <<qt, input, settings, env, pool, single, multi>>

\* write_line writes the row of a match: the datum found, at index 0 of its
\* source, and its distance.
WriteLine ==
    /\ index.head.some
    /\ ~index.row.some
    /\ index' = [index EXCEPT !.row = Some(write_record(index.parsed, 5,
                                                        [base |-> index.base, index |-> 0],
                                                        index.fields))]
    /\ UNCHANGED <<qt, input, settings, env, pool, single, multi>>

NextProject ==
    \/ MetaIter
    \/ KmlFind
    \/ WriteHeader
    \/ WriteLine

SpecProject == InitProject /\ [][NextProject]_vars

(***************************************************************************)
(* Bounding-box resolution (make_bbox).  The arguments are the sphere      *)
(* flag, the explicit bbox as the texts between its commas, and the path;  *)
(* the file offers the bbox of a shapefile header or of a GeoJSON member.  *)
(***************************************************************************)
Panicked == Err("panic")

\* bbox_next: the next number of the bbox text, or why there is none.
bbox_next(pts, n) ==
    IF n > Len(pts) THEN Err("Unexpected end of bbox input")
    ELSE IF ~ParseF64(pts[n]).ok THEN Err("Cannot parse bbox input")
    ELSE ParseF64(pts[n])

\* The two corners of an explicit bbox; the first failure of the four
\* numbers, in order, is the error.
ParseBbox(pts) ==
    LET bad == {n \in 1..4 : ~bbox_next(pts, n).ok} IN
    IF bad # {} THEN bbox_next(pts, CHOOSE n \in bad : \A m \in bad : n <= m)
    ELSE Ok(<<Pt(bbox_next(pts, 1).val, bbox_next(pts, 2).val),
              Pt(bbox_next(pts, 3).val, bbox_next(pts, 4).val)>>)

SphereCorners == Ok(<<Pt(-180, -90), Pt(180, 90)>>)

\* Rect::new(a, b) and to_radians_in_place.
RectOf(corners) ==
    IF ~corners.ok THEN corners
    ELSE LET a == corners.val[1]
             b == corners.val[2]
             lo(u, v) == IF u <= v THEN u ELSE v
             hi(u, v) == IF u >= v THEN u ELSE v
         IN Ok(Rect(ToRadians(lo(a.x, b.x)), ToRadians(lo(a.y, b.y)),
                    ToRadians(hi(a.x, b.x)), ToRadians(hi(a.y, b.y))))

\* The bbox of the source file, by its extension.
FileCorners(path, file) ==
    CASE path.ext = "" -> Err("Cannot parse file extension")
      [] path.ext = "shp" -> Ok(<<file.shp_min, file.shp_max>>)
      [] path.ext = "json" ->
            IF ~file.json_bbox.some THEN Err("No bbox present on GeoJson")
            ELSE IF Len(file.json_bbox.val) # 2
                 THEN Err("Invalid bounding box present in GeoJson")
                 ELSE Panicked
      [] path.ext \in {"kml", "kmz"} -> SphereCorners
      [] OTHER -> Err("Unsupported file type")

\* A make_bbox that looks at the explicit bbox before the sphere flag.
make_bbox_BboxFirst(path, file, sphere, bbox) ==
    RectOf(IF bbox.some THEN ParseBbox(bbox.val)
           ELSE IF sphere THEN SphereCorners
           ELSE FileCorners(path, file))

\* make_bbox (src/qt/mod.rs)
make_bbox(path, file, sphere, bbox) ==
    RectOf(IF sphere THEN SphereCorners
           ELSE IF bbox.some THEN ParseBbox(bbox.val)
           ELSE FileCorners(path, file))

\* make_bbox of the proximity binary (src/bin/proximity/main.rs): only a
\* shapefile offers a bbox.
main_make_bbox(path, file, sphere, bbox) ==
    RectOf(IF sphere THEN SphereCorners
           ELSE IF bbox.some THEN ParseBbox(bbox.val)
           ELSE CASE path.ext = "" -> Err("Cannot parse file extension")
                  [] path.ext = "shp" -> Ok(<<file.shp_min, file.shp_max>>)
                  [] OTHER -> Err("Unsupported file type"))

Extensions == {"", "shp", "json", "geojson", "kml", "kmz", "csv", "txt"}

BboxTexts == {<<"0", "0", "1", "1">>, <<"1", "1", "0", "0">>, <<"0", "0", "1">>,
              <<"0", "x", "1", "1">>}

\* The bbox member of a GeoJSON file: absent, or 2, 4 or 6 numbers.
JsonBboxes == {None, Some(<<0, 0>>), Some(<<0, 0, 4, 4>>), Some(<<0, 0, 0, 4, 4, 4>>)}

InitBbox ==
    /\ qt = NewTree(GridBounds, DefaultDepth, DefaultChildren)
    /\ \E ext \in Extensions, sphere \in BOOLEAN, bbox \in {None} \cup {Some(t) : t \in BboxTexts},
          json_bbox \in JsonBboxes :
          index = [path |-> [ext |-> ext],
                   file |-> [shp_min |-> Pt(0, 0), shp_max |-> Pt(4, 4), json_bbox |-> json_bbox],
                   sphere |-> sphere, bbox |-> bbox, out |-> None, via |-> "none"]
    /\ env = Reliable
    /\ input = <<>>
    /\ settings = [k |-> None, r |-> None, has_id |-> FALSE, single_thread |-> TRUE]
    /\ pool = 1
    /\ PipelineStart

MakeBbox ==
    /\ ~index.out.some
    /\ index' = [index EXCEPT
                    !.out = Some(make_bbox(index.path, index.file, index.sphere, index.bbox)),
                    !.via = "make_bbox"]
    /\ UNCHANGED <<qt, input, settings, env, pool, single, multi>>

MainMakeBbox ==
    /\ ~index.out.some
    /\ index' = [index EXCEPT
                    !.out = Some(main_make_bbox(index.path, index.file, index.sphere, index.bbox)),
                    !.via = "main"]
    /\ UNCHANGED <<qt, input, settings, env, pool, single, multi>>

NextBbox ==
    \/ MakeBbox
    \/ MainMakeBbox

SpecBbox == InitBbox /\ [][NextBbox]_vars

(***************************************************************************)
(* The run of the proximity tool (src/bin/proximity/main.rs): the settings *)
(* of the input, the header row, the bounds, the build of the index from   *)
(* the file at the path, and the loop over the comparison records.         *)
(***************************************************************************)
\* --delimiter as bytes, the header row of the input, and what clap lets
\* through of --sphere and --bbox, which conflict.
Delimiters == {<<",">>, <<";", ";">>}

Headers == {<<"lng", "lat">>, <<"id", "LNG", "Lat">>, <<"id", "lat">>}

BoundsArgs ==
    {[sphere |-> TRUE, bbox |-> None], [sphere |-> FALSE, bbox |-> None],
     [sphere |-> FALSE, bbox |-> Some(<<"0", "0", "1", "1">>)],
     [sphere |-> FALSE, bbox |-> Some(<<"0", "0", "1">>)]}

MainFile == {Shape("Point", <<PointGeom(Pt(1, 1))>>), Shape("Point", <<PointGeom(Pt(3, 1))>>)}

MainInput == {CsvRecord("1", "0"), CsvRecord("0", "x")}

\* build_input_settings: the delimiter is one byte and the header, in lower
\* case, has lat and lng; an id column is optional.
build_input_settings(delimiter, header, s) ==
    IF Len(delimiter) # 1 THEN Err("InvalidDelimiter")
    ELSE LET labels == {to_lowercase(header[n]) : n \in DOMAIN header} IN
         IF "lat" \in labels /\ "lng" \in labels
         THEN Ok([s EXCEPT !.has_id = "id" \in labels])
         ELSE Err("MissingLatLngField")

\* make_qt_from_path: the builder of the extension.
make_qt_from_path(path) ==
    CASE path.ext = "" -> Err("Cannot parse file extension")
      [] path.ext = "shp" -> Ok("shp")
      [] path.ext = "json" -> Ok("geojson")
      [] path.ext \in {"kml", "kmz"} -> Ok("kml")
      [] OTHER -> Err("Unsupported file type")

\* The message main prints for a record without rows.
main_message(i, e) ==
    IF e.type = "FindError" /\ e.what = "OutOfBounds"
    THEN <<"Input point at index", i, "is out of bounds">>
    ELSE IF e.type = "FindError" THEN <<"No result for record at index", i>>
    ELSE <<"Failed to parse record at index", i>>

InitMain ==
    /\ qt = None
    /\ \E delimiter \in Delimiters, header \in Headers, ext \in Extensions, b \in BoundsArgs,
          k \in {None, Some(2)}, file \in SeqsUpTo(MainFile, MaxRecords) :
          /\ index = [phase |-> "settings", error |-> None,
                      args |-> [delimiter |-> delimiter, path |-> [ext |-> ext],
                                sphere |-> b.sphere, bbox |-> b.bbox],
                      header |-> header,
                      shp |-> [shp_min |-> Pt(0, 0), shp_max |-> Pt(4, 4)],
                      head |-> None, searched |-> 0,
                      bounds |-> None, source |-> "none", opts |-> BuildShape,
                      file |-> file, pos |-> 0, stored |-> 0, inserted |-> <<>>, err |-> <<>>]
          /\ settings = [k |-> k, r |-> None, has_id |-> FALSE, single_thread |-> TRUE]
    /\ input \in SeqsUpTo(MainInput, MaxRecords)
    /\ env = Reliable
    /\ pool = 1
    /\ PipelineStart

\* main returns the error: the run is over.
Fail(e) == [index EXCEPT !.phase = "failed", !.error = Some(e)]

\* Settings that go on to the writer after an error.
InputSettings_Lenient ==
    /\ index.phase = "settings"
    /\ index' = [index EXCEPT !.phase = "writer"]
    /\ UNCHANGED <<qt, input, settings, env, pool, single, multi>>

\* main, lines 93-103: the delimiter and the settings of the input.
InputSettings ==
    /\ index.phase = "settings"
    /\ IF Len(index.args.delimiter) # 1
       THEN /\ index' = Fail("delimeter option must be a single character")
            /\ UNCHANGED settings
       ELSE LET res == build_input_settings(index.args.delimiter, index.header, settings) IN
            IF res.ok THEN /\ settings' = res.val
                           /\ index' = [index EXCEPT !.phase = "writer"]
            ELSE /\ index' = Fail(res.err)
                 /\ UNCHANGED settings
    /\ UNCHANGED <<qt, input, env, pool, single, multi>>

\* main, line 104: the writer and its header row.
MakeCsvWriter ==
    /\ index.phase = "writer"
    /\ index' = [index EXCEPT !.phase = "bbox", !.head = Some(make_csv_writer("id", None))]
    /\ UNCHANGED <<qt, input, settings, env, pool, single, multi>>

\* main, lines 107-112: the options of the quadtree, its bounds first.
MainOpts ==
    /\ index.phase = "bbox"
    /\ LET res == main_make_bbox(index.args.path, index.shp, index.args.sphere,
                                 index.args.bbox) IN
       IF res.ok THEN index' = [index EXCEPT !.phase = "dispatch", !.bounds = Some(res.val)]
       ELSE index' = Fail(res.err)
    /\ UNCHANGED <<qt, input, settings, env, pool, single, multi>>

\* main, line 123: make_qt_from_path picks the builder, which makes the
\* empty tree of the options.
Dispatch ==
    /\ index.phase = "dispatch"
    /\ LET res == make_qt_from_path(index.args.path) IN
       IF res.ok
       THEN /\ index' = [index EXCEPT !.phase = "build", !.source = res.val]
            /\ qt' = make_dyn_qt(index.bounds.val, index.opts)
       ELSE /\ index' = Fail(res.err)
            /\ UNCHANGED qt
    /\ UNCHANGED <<input, settings, env, pool, single, multi>>

\* The builder has read the whole file and main has its tree.
Loaded == index.phase = "build" /\ index.pos = Len(index.file)

\* The loop over the comparison records, one record: the search ...
main_find(i, record, t, s) ==
    LET parsed == parse_record(i, record, s) IN
    IF ~parsed.ok THEN parsed
    ELSE IF ~s.k.some \/ s.k = Some(1)
    THEN LET res == find(t, parsed.val.point, s.r) IN
         IF res.ok THEN Ok([kind |-> "One", parsed |-> parsed.val, results |-> <<res.val>>])
         ELSE Err(FindError(i, res.err))
    ELSE LET res == knn(t, parsed.val.point, s.k.val, s.r) IN
         IF res.ok THEN Ok([kind |-> "Many", parsed |-> parsed.val, results |-> res.val])
         ELSE Err(FindError(i, res.err))

\* ... and its rows or its message.
main_output(sink, i, output, e) ==
    IF output.ok
    THEN SingleWriteResults(sink, output.val.parsed, output.val.results, {}, e, 1)
    ELSE eprintln(sink, main_message(i, output.err), e)

\* A loop that starts as soon as the builder has made its tree.
MainRecord_Eager ==
    /\ index.phase = "build"
    /\ s_next <= Len(input)
    /\ s_sink' = main_output(s_sink, s_next - 1,
                             main_find(s_next - 1, input[s_next], qt, settings), env)
    /\ s_next' = s_next + 1
    /\ index' = [index EXCEPT !.searched = @ + 1]
    /\ UNCHANGED <<qt, input, settings, env, pool, multi>>

\* main, lines 136-194: one turn of the loop.
MainRecord ==
    /\ Loaded
    /\ s_next <= Len(input)
    /\ s_sink' = main_output(s_sink, s_next - 1,
                             main_find(s_next - 1, input[s_next], qt, settings), env)
    /\ s_next' = s_next + 1
    /\ index' = [index EXCEPT !.searched = @ + 1]
    /\ UNCHANGED <<qt, input, settings, env, pool, multi>>

NextMain ==
    \/ InputSettings
    \/ MakeCsvWriter
    \/ MainOpts
    \/ Dispatch
    \/ ShpBuild
    \/ GeojsonBuild
    \/ KmlBuild
    \/ MainRecord

SpecMain == InitMain /\ [][NextMain]_vars


(***************************************************************************)
(* The iterators over a KML document (src/kml/mod.rs).  A Kml is a         *)
(* container, Document or Folder, with its elements, or a single element   *)
(* of some kind; an iterator is Iter, a flat_map over the elements that    *)
(* are left with the iterator of the element it is in, Once or Empty.      *)
(***************************************************************************)
Container(kind, elements) == [kind |-> kind, elements |-> elements]
Element(kind, name) == [kind |-> kind, name |-> name]

Containers == {"KmlDocument", "Document", "Folder"}

\* The kinds of KmlItem.
ItemKinds == {"MultiGeometry", "LinearRing", "LineString", "Location", "Placemark", "Point",
              "Polygon"}

\* The next() calls made on an iterator.
MaxNext == MaxInserts + 1

\* Elements: geometries, a placemark, and a style, which is no item.
KmlElements ==
    {Element("Point", "p"), Element("MultiGeometry", "m"), Element("Placemark", "q"),
     Element("Style", "s")}

KmlFolders ==
    {Container("Folder", <<>>),
     Container("Folder", <<Element("MultiGeometry", "n")>>),
     Container("Folder", <<Element("Point", "r"), Element("MultiGeometry", "o")>>)}

\* The documents read: a document of elements and folders, or one element.
KmlFiles ==
    {Container("KmlDocument", e) : e \in SeqsUpTo(KmlElements \cup KmlFolders, MaxRecords)}
        \cup {Element("MultiGeometry", "m"), Element("Point", "p")}

Iter(elements, front) == [state |-> "Iter", rest |-> elements, front |-> front]
Once(item) == [state |-> "Once", item |-> item]
Empty == [state |-> "Empty"]

\* Kml::into_iter
into_iter(kml) ==
    IF kml.kind \in Containers THEN Iter(kml.elements, None)
    ELSE IF kml.kind \in ItemKinds THEN Once(kml)
    ELSE Empty

\* IntoIterRef::new
IntoIterRef_new(kml) ==
    IF kml.kind \in Containers THEN Iter(kml.elements, None)
    ELSE IF kml.kind = "MultiGeometry" THEN Once(kml)
    ELSE Empty

Yield(item, it) == [item |-> item, it |-> it]

\* next() of IntoIter (by_ref false) and of IntoIterRef (by_ref true); an
\* Iter is the FlatMap: the iterator of the front element is drained, then
\* the next element is opened.
RECURSIVE IterNext(_, _)
IterNext(it, by_ref) ==
    CASE it.state = "Empty" -> Yield(None, it)
      [] it.state = "Once" ->
            IF by_ref THEN Yield(Some(it.item), it) ELSE Yield(Some(it.item), Empty)
      [] OTHER ->
            IF it.front.some
            THEN LET inner == IterNext(it.front.val, by_ref) IN
                 IF inner.item.some
                 THEN Yield(inner.item, [it EXCEPT !.front = Some(inner.it)])
                 ELSE IterNext([it EXCEPT !.front = None], by_ref)
            ELSE IF it.rest = <<>> THEN Yield(None, it)
            ELSE LET k == Head(it.rest)
                     opened == IF by_ref THEN IntoIterRef_new(k) ELSE into_iter(k)
                 IN IterNext([it EXCEPT !.rest = Tail(@), !.front = Some(opened)], by_ref)

\* An iteration: the iterator, the items it gave, the calls made, and
\* whether it has returned None.
Iteration(it) == [it |-> it, out |-> <<>>, calls |-> 0, ended |-> FALSE]

Advance(run, by_ref) ==
    LET res == IterNext(run.it, by_ref) IN
    [it |-> res.it,
     out |-> IF res.item.some THEN Append(run.out, res.item.val) ELSE run.out,
     calls |-> run.calls + 1,
     ended |-> ~res.item.some]

InitKml ==
    /\ qt = NewTree(GridBounds, DefaultDepth, DefaultChildren)
    /\ \E kml \in KmlFiles :
          index = [kml |-> kml, owned |-> Iteration(into_iter(kml)),
                   borrowed |-> Iteration(IntoIterRef_new(kml))]
    /\ env = Reliable
    /\ input = <<>>
    /\ settings = [k |-> None, r |-> None, has_id |-> FALSE, single_thread |-> TRUE]
    /\ pool = 1
    /\ PipelineStart

\* for item in kml
NextOwned ==
    /\ index.owned.calls < MaxNext
    /\ ~index.owned.ended
    /\ index' = [index EXCEPT !.owned = Advance(@, FALSE)]
    /\ UNCHANGED <<qt, input, settings, env, pool, single, multi>>

\* for item in &kml
NextBorrowed ==
    /\ index.borrowed.calls < MaxNext
    /\ ~index.borrowed.ended
    /\ index' = [index EXCEPT !.borrowed = Advance(@, TRUE)]
    /\ UNCHANGED <<qt, input, settings, env, pool, single, multi>>

NextKml ==
    \/ NextOwned
    \/ NextBorrowed

SpecKml == InitKml /\ [][NextKml]_vars

(***************************************************************************)
(* Properties.                                                             *)
(***************************************************************************)
Indices == 0..(Len(input) - 1)

MultiRun == ~settings.single_thread

\* How many elements of a sequence satisfy a test.
Count(seq, Test(_)) == Cardinality({n \in 1..Len(seq) : Test(seq[n])})

\* Record i has been taken from the iterator / is held by a fold.
Read(i) == i < m_next - 1
Held(i) == \E h \in holding : h.index = i
InChannel(i) == LET Is(h) == h.index = i IN Count(chan, Is)

\* C1 (as stated): a multi-threaded run never deadlocks, for every pool size
\* from 1 up: until rayon::scope has ended some thread can take a step, and
\* it returns only after the writer has consumed every output that was sent.
C1_NeverDeadlocks ==
    MultiRun =>
        /\ scope = "running" => ENABLED MultiNext
        /\ scope = "returned" =>
               /\ chan = <<>>
               /\ \A i \in Indices : handled[i] = sent[i]

\* C2: in a multi-threaded run every record read gives exactly one output on
\* the channel, and the writer handles each output exactly once: an output
\* sent is in the channel or was handled, never both and never twice; when
\* the run returns every record was read and its output handled.
C2_ExactlyOnce ==
    MultiRun =>
        \A i \in Indices :
            /\ sent[i] = (IF Read(i) /\ ~Held(i) THEN 1 ELSE 0)
            /\ handled[i] + InChannel(i) = sent[i]
            /\ scope = "returned" => handled[i] = 1

\* C2's case: two threads, two records, and the second record's rows written
\* before the first's.
C2_Witness ==
    /\ MultiRun /\ scope = "returned" /\ pool = 2 /\ Len(input) = 2
    /\ Len(m_sink.out) >= 2
    /\ m_sink.out[1].index = 1
    /\ m_sink.out[Len(m_sink.out)].index = 0

\* The rows of a sink as a multiset: each row as often in one as in the other.
SameRows(a, b) ==
    /\ Len(a) = Len(b)
    /\ \A n \in 1..Len(a) :
          LET Is(row) == row = a[n] IN Count(a, Is) = Count(b, Is)

SingleDone == settings.single_thread /\ s_next > Len(input)
MultiDone == MultiRun /\ scope = "returned"

\* What exec_single_thread gives for this index, stream, k and r.
Reference == exec_single_thread(input, qt, settings, env, Len(input))

C4_Contiguous ==
    MultiRun =>
        \A a, b, c \in 1..Len(m_sink.out) :
            (a < b /\ b < c /\ m_sink.out[a].index = m_sink.out[c].index)
                => m_sink.out[b].index = m_sink.out[a].index

\* C4's case: a knn run with two threads that wrote two rows for each of two
\* records, the later record's first.
C4_Witness ==
    /\ MultiRun /\ pool = 2 /\ settings.k = Some(2)
    /\ Len(m_sink.out) = 4
    /\ m_sink.out[1].index = 1 /\ m_sink.out[2].index = 1
    /\ m_sink.out[3].index = 0 /\ m_sink.out[4].index = 0

\* C5: the rows of a single-threaded run stand in input order: a row of an
\* earlier record is never written after a row of a later one.
C5_InputOrder ==
    settings.single_thread =>
        \A a, b \in 1..Len(s_sink.out) :
            a < b => s_sink.out[a].index <= s_sink.out[b].index

\* C5's case: a finished single-threaded run with rows of two records.
C5_Witness ==
    /\ SingleDone
    /\ Len(s_sink.out) >= 2
    /\ s_sink.out[1].index = 0
    /\ s_sink.out[Len(s_sink.out)].index = 1


\* The rows and the messages a sink holds for input record i.
RowsOf(sink, i) == LET Is(row) == row.index = i IN Count(sink.out, Is)
MessagesOf(sink, i) == LET Is(msg) == msg.index = i IN Count(sink.err, Is)
WriteFailuresOf(sink, i) == LET Is(msg) == msg = WriteFailed(i) IN Count(sink.err, Is)

\* The writer has reported a failed write.
WriteFailureReported == \E i \in Indices : WriteFailuresOf(m_sink, i) > 0

SendFailed == \E i \in Indices : Read(i) /\ ~Held(i) /\ sent[i] = 0

\* C7 (as stated): when a send finds the channel closed no thread panics.
C7_NoPanicOnClosedChannel ==
    (MultiRun /\ SendFailed) => (~fold_panic /\ rtask # "panicked" /\ scope # "panicked")

\* C7 (amended): a send that finds the channel closed panics its thread (and
\* only such a send does); the channel is closed only by a writer that
\* panicked; the reader task then ends panicked and rayon::scope passes the
\* panic on instead of returning.
C7_SendFailurePanics ==
    MultiRun =>
        /\ SendFailed <=> fold_panic
        /\ fold_panic => wtask = "panicked" /\ rtask \in {"running", "panicked"}
        /\ rtask = "panicked" => fold_panic
        /\ (fold_panic /\ scope # "running") => scope = "panicked"

\* C7's case: the writer panicked, a send failed, and the scope ended.
C7_Witness ==
    /\ MultiRun /\ SendFailed /\ fold_panic
    /\ rtask = "panicked" /\ scope = "panicked"

NumberTexts == {"0", "1", "200"}

\* A record that was read but whose lng or lat is missing or no number.
BadCoord(record) ==
    record.ok /\ (record.val.lng \notin NumberTexts \/ record.val.lat \notin NumberTexts)

RunSink == IF settings.single_thread THEN s_sink ELSE m_sink
Processed(i) == IF settings.single_thread THEN s_next > i + 1 ELSE handled[i] = 1
RunDone == SingleDone \/ MultiDone

\* C9: a record whose lng or lat is missing or unparseable gives exactly one
\* message on stderr, a CannotParseRecord for its index, and no row; the run
\* does not stop or fail for it, and a later record on a reference point
\* still gets its rows.
C9_BadRecordSkipped ==
    /\ ~s_sink.panicked /\ scope # "panicked"
    /\ \A i \in Indices :
          BadCoord(input[i + 1]) =>
              /\ RowsOf(RunSink, i) = 0
              /\ MessagesOf(RunSink, i) = (IF Processed(i) THEN 1 ELSE 0)
              /\ \A n \in 1..Len(RunSink.err) :
                    RunSink.err[n].index = i =>
                        RunSink.err[n] \in {CannotParseRecord(i, "Lng"),
                                            CannotParseRecord(i, "Lat")}
              /\ RunDone =>
                    \A j \in Indices :
                        (j > i /\ input[j + 1] = CsvRecord("0", "0")
                               /\ settings.k # Some(0))
                            => RowsOf(RunSink, j) >= 1

\* C9's case: a finished multi-threaded run whose first record has no lng
\* and whose second lies on a reference point.
C9_Witness ==
    /\ MultiDone
    /\ Len(input) = 2 /\ input[1] = CsvRecord("", "0") /\ input[2] = CsvRecord("0", "0")
    /\ MessagesOf(m_sink, 0) = 1
    /\ RowsOf(m_sink, 1) >= 1

\* C10: a find without radius (find_r(q, infinity)) on a non-empty tree, for
\* a q inside the root bounds, returns an inserted datum with its distance to
\* q, and that distance is at most the distance from q to every inserted
\* datum, whatever the sequence of inserts that built the tree.
C10_FindNearest ==
    (index.last.op = "find" /\ ~index.last.r.some /\ qt.size > 0) =>
        LET q == index.last.q
            res == index.last.res
        IN /\ res.ok <=> Contains(qt.bounds, q)
           /\ res.ok =>
                 /\ \E n \in 1..Len(index.inserted) : res.val.datum = index.inserted[n]
                 /\ res.val.distance = GeomDist(q, res.val.datum)
                 /\ \A n \in 1..Len(index.inserted) :
                       res.val.distance <= GeomDist(q, index.inserted[n])

\* C10's case: a tree of three datums whose root was subdivided, and a find
\* without radius whose answer is not the first datum inserted and is
\* strictly nearer than another.
C10_Witness ==
    /\ index.last.op = "find" /\ ~index.last.r.some
    /\ Len(index.inserted) = 3
    /\ qt.nodes[<<>>].internal
    /\ index.last.res.ok
    /\ index.last.res.val.datum # index.inserted[1]
    /\ \E n \in 1..Len(index.inserted) :
          index.last.res.val.distance < GeomDist(index.last.q, index.inserted[n])

\* The inserted datums within the radius of the last search.
Matches ==
    {n \in 1..Len(index.inserted) :
        Within(GeomDist(index.last.q, index.inserted[n]), UnwrapRadius(index.last.r))}

\* C11: knn(q, k, r) for a q inside the root bounds succeeds, also with fewer
\* than k matches, and returns inserted datums within r with their
\* distances, each once, nearest first, as many as there are up to k, and
\* none that is left out is nearer than one that is returned.
C11_KnnSortedTruncated ==
    (index.last.op = "knn" /\ Contains(qt.bounds, index.last.q)) =>
        LET q == index.last.q
            res == index.last.res
            found == res.val
        IN /\ res.ok
           /\ Len(found) = (IF Cardinality(Matches) < index.last.k
                            THEN Cardinality(Matches) ELSE index.last.k)
           /\ \A i \in 1..Len(found) :
                 /\ \E n \in Matches : found[i].datum = index.inserted[n]
                 /\ found[i].distance = GeomDist(q, found[i].datum)
                 /\ \A j \in 1..Len(found) :
                       i < j => /\ found[i].distance <= found[j].distance
                                /\ found[i].datum # found[j].datum
                 /\ \A n \in Matches :
                       (\A j \in 1..Len(found) : found[j].datum # index.inserted[n])
                           => found[i].distance <= GeomDist(q, index.inserted[n])

\* C11's case: a knn with k = 2 on a subdivided tree with three datums in
\* reach: the two nearest are returned, nearer first, the third is cut off.
C11_Witness ==
    /\ index.last.op = "knn" /\ index.last.k = 2
    /\ Cardinality(Matches) = 3
    /\ qt.nodes[<<>>].internal
    /\ index.last.res.ok
    /\ Len(index.last.res.val) = 2
    /\ index.last.res.val[1].distance < index.last.res.val[2].distance

\* Every order of the elements of a sequence.
RECURSIVE Orders(_)
Orders(seq) ==
    IF seq = <<>> THEN {<<>>}
    ELSE UNION {{<<seq[n]>> \o rest :
                    rest \in Orders([m \in 1..(Len(seq) - 1) |->
                                        IF m < n THEN seq[m] ELSE seq[m + 1]])} :
                n \in 1..Len(seq)}

C13_OutOfBoundsIff ==
    index.last.op \in {"find", "knn"} =>
        ((~index.last.res.ok /\ index.last.res.err = "OutOfBounds")
            <=> ~Contains(qt.bounds, index.last.q))

\* C13's case: a find on a tree that holds datums, for a point outside the
\* root bounds.
C13_Witness ==
    /\ index.last.op = "find"
    /\ qt.size > 0
    /\ ~Contains(qt.bounds, index.last.q)
    /\ index.last.res = Err("OutOfBounds")

\* A record whose point lies inside the bounds of the reference tree.
InBounds(record) == record.ok /\ record.val.lng \in {"0", "1"} /\ record.val.lat = "0"

\* C14: with k = 0 the search of a record (inside the bounds) succeeds with
\* an empty list: the record gets no row and no message on stderr.
C14_KZeroNoOutput ==
    settings.k = Some(0) =>
        /\ \A i \in Indices :
              InBounds(input[i + 1]) =>
                  /\ RowsOf(RunSink, i) = 0
                  /\ MessagesOf(RunSink, i) = 0
        /\ \A h \in holding \cup {chan[n] : n \in 1..Len(chan)} :
              InBounds(input[h.index + 1]) =>
                  h.output = Ok([kind |-> "Many", parsed |-> h.output.val.parsed,
                                 results |-> <<>>])

\* C14's case: a finished multi-threaded run with k = 0 over two records on
\* reference points: both were handled, nothing was written.
C14_Witness ==
    /\ MultiDone /\ settings.k = Some(0)
    /\ Len(input) = 2 /\ input[1] = CsvRecord("0", "0") /\ input[2] = CsvRecord("0", "0")
    /\ handled[0] = 1 /\ handled[1] = 1
    /\ m_sink.out = <<>> /\ m_sink.err = <<>>

\* The places of the tree that hold a datum: a node and a position in it.
Slots(t) == {<<p, i>> \in (DOMAIN t.nodes) \X (1..MaxInserts) : i <= Len(t.nodes[p].data)}

\* C15: after any sequence of inserts, size is the number of inserts that
\* succeeded and the tree holds exactly their datums, each in one place; so
\* an insert that failed has left size and the stored datums as they were.
C15_SizeCountsInserts ==
    /\ qt.size = Len(index.inserted)
    /\ Cardinality(Slots(qt)) = qt.size
    /\ TreeData(qt) = {index.inserted[n] : n \in 1..Len(index.inserted)}

\* C15's case: the third insert failed after two that succeeded and that
\* subdivided the root.
C15_Witness ==
    /\ index.last.op = "insert" /\ ~index.last.ok
    /\ index.emitted = 3
    /\ qt.size = 2
    /\ qt.nodes[<<>>].internal

\* C16: after any sequence of inserts no node lies deeper than max_depth, a
\* leaf holds at most max_children datums unless it lies at max_depth, and a
\* subdivided node lies above max_depth and holds no datum itself.
C16_LeafCapacity ==
    \A p \in DOMAIN qt.nodes :
        /\ Len(p) <= index.opts.depth
        /\ qt.nodes[p].internal =>
              (Len(p) < index.opts.depth /\ qt.nodes[p].data = <<>>)
        /\ ~qt.nodes[p].internal =>
              (Len(qt.nodes[p].data) <= index.opts.max_children
                  \/ Len(p) = index.opts.depth)

\* C16's case: a leaf at max_depth that holds more than max_children datums.
C16_Witness ==
    \E p \in DOMAIN qt.nodes :
        /\ p # <<>>
        /\ Len(p) = index.opts.depth
        /\ Len(qt.nodes[p].data) > index.opts.max_children

\* C17: in a build in point mode a datum that is not a point is refused and
\* nothing of it is stored, so every datum the tree holds is a point.
C17_PointDiscipline ==
    (index.source \in Sources /\ ~index.opts.is_bounds) =>
        \A d \in TreeData(qt) : d.geom.kind = "Point"

\* C18: the datums flattened from one record carry the same source index
\* and the datums of different records carry different ones.
C18_FlattenedShareIndex ==
    \A a, b \in 1..Len(index.inserted) :
        (index.inserted[a].rec = index.inserted[b].rec)
            <=> (index.inserted[a].datum.index = index.inserted[b].datum.index)

\* C18's case: a shapefile of a multipoint and a point, both parts of the
\* first and the second all inserted.
C18_Witness ==
    /\ index.source = "shp"
    /\ index.pos = 2
    /\ index.file[1].kind = "Multipoint"
    /\ Len(index.inserted) = 3
    /\ index.inserted[1].rec = 0 /\ index.inserted[2].rec = 0
    /\ index.inserted[3].rec = 1

\* C19: the source index of every inserted datum is the 0-based position of
\* its record in the file, for every kind of source, whatever happened to
\* the records before it.
C19_IndexIsPosition ==
    \A n \in 1..Len(index.inserted) :
        index.inserted[n].datum.index = index.inserted[n].rec

\* The fields asked for, none when the option is absent.
Requested == IF index.fields.some THEN index.fields.val ELSE <<>>

\* C20: the projection of a datum over n field names is n strings, the i-th
\* being the value the datum's record has for the i-th name and the empty
\* string when the record has no field of that name, for every variant with
\* metadata; without metadata every string is empty.
C20_Projection ==
    index.out.some =>
        /\ Len(index.out.val) = Len(Requested)
        /\ \A i \in 1..Len(Requested) :
              index.out.val[i] =
                  IF index.variant # "None" /\ Requested[i] \in DOMAIN index.record
                  THEN index.record[Requested[i]]
                  ELSE ""

\* The geometries a record stands for, in radians as (lng, lat).
InRadians(record) == {to_radians(record.parts[n]) : n \in 1..Len(record.parts)}

\* C21: every geometry the index holds is a geometry of its record with the
\* coordinates converted from degrees to radians, once, as (lng, lat),
\* whatever kind of item the record is.
C21_StoredInRadians ==
    index.source \in Sources =>
        \A n \in 1..Len(index.inserted) :
            index.inserted[n].datum.geom
                \in InRadians(index.file[index.inserted[n].rec + 1])

\* The rectangle of an explicit bbox that parses.
Explicit == RectOf(ParseBbox(index.bbox.val))

C23_GeoJsonBbox ==
    (index.out.some /\ index.via = "make_bbox" /\ ~index.sphere /\ ~index.bbox.some
        /\ index.path.ext = "json" /\ index.file.json_bbox.some) =>
        LET b == index.file.json_bbox.val IN
        IF Len(b) = 4
        THEN index.out.val = RectOf(Ok(<<Pt(b[1], b[2]), Pt(b[3], b[4])>>))
        ELSE ~index.out.val.ok /\ index.out.val # Panicked
\* The parser the documentation gives each extension, "none" for the others.
Parser(ext) ==
    CASE ext = "shp" -> "shp"
      [] ext \in {"json", "geojson"} -> "geojson"
      [] ext \in {"kml", "kmz"} -> "kml"
      [] ext = "csv" -> "csv"
      [] OTHER -> "none"

\* make_qt_from_path has returned: the builder is chosen, or main has failed
\* after the bounds were made.
Dispatched == index.phase = "build" \/ (index.phase = "failed" /\ index.bounds.some)

\* C24: the parser is chosen by the extension: shp, json, geojson, kml, kmz
\* and csv each go to their parser; any other extension fails with the
\* unsupported-file-type error (or, without an extension, the error of the
\* extension) and nothing is inserted.
C24_ParserByExtension ==
    Dispatched =>
        LET ext == index.args.path.ext IN
        IF Parser(ext) # "none"
        THEN index.phase = "build" /\ index.source = Parser(ext)
        ELSE /\ index.phase = "failed"
             /\ index.error \in {Some("Unsupported file type"),
                                 Some("Cannot parse file extension")}
             /\ index.inserted = <<>>

\* The arguments or the input header are wrong: the delimiter is not one
\* byte, the bbox does not parse, lng or lat is missing from the header, or
\* the extension of the path is none the tool knows.
ConfigError ==
    \/ Len(index.args.delimiter) # 1
    \/ index.args.bbox.some /\ ~ParseBbox(index.args.bbox.val).ok
    \/ ~({"lng", "lat"} \subseteq {to_lowercase(index.header[n]) : n \in DOMAIN index.header})
    \/ Parser(index.args.path.ext) = "none"

\* C25: a run with a configuration error never gets to the build or to the
\* loop over the comparison records: no record is searched, no datum is
\* inserted and no result row is written.
C25_ConfigErrorEndsRun ==
    ConfigError =>
        /\ index.phase # "build"
        /\ index.searched = 0
        /\ index.inserted = <<>>
        /\ s_sink.out = <<>>

C25_Witness ==
    /\ ConfigError
    /\ index.phase = "failed"
    /\ index.error = Some("Unexpected end of bbox input")
    /\ index.head.some
    /\ Len(input) > 0
    /\ index.searched = 0
    /\ s_sink.out = <<>>

\* C28: a search starts only when the builder has read the whole file, and
\* once a record has been searched the tree and the datums inserted never
\* change.
C28_BuildBeforeSearch ==
    [][/\ (index'.searched > index.searched => Loaded)
       /\ (index.searched > 0 => qt' = qt /\ index'.inserted = index.inserted)]_vars

C28_Witness ==
    /\ index.phase = "build"
    /\ index.searched = Len(input)
    /\ Len(input) > 1
    /\ Len(index.inserted) > 1
    /\ Len(s_sink.out) > 0

\* C26: the first column of every row, input_index, is the 0-based position
\* of the comparison record, whether or not the input has an id column.
C26_RowCarriesPosition ==
    index.row.some => index.row.val[1] = ToString(index.parsed.index)

\* C26, amended: the first column is the record's id when the input has an
\* id column and the record's 0-based position when it has none.
C26_IdOrPosition ==
    index.row.some =>
        index.row.val[1] = IF index.parsed.id.some THEN index.parsed.id.val
                           ELSE ToString(index.parsed.index)

C26_Witness ==
    /\ index.row.some
    /\ ~index.parsed.id.some
    /\ index.parsed.index = 1
    /\ index.row.val[1] = "1"

SingleSearch == ~settings.k.some \/ settings.k = Some(1)

\* C29: the single-nearest search is used when k is absent or 1 and the
\* k-nearest search otherwise.  A record that was handled then has one row
\* or one message when k is absent or 1, and at most k rows or one message
\* otherwise; "no datum within the radius" is a message only when k is
\* absent or 1, where a record between the reference points searched with
\* radius 0 gets it, and with any other k the same record gets nothing.
C29_FindOrKnn ==
    /\ \A i \in Indices :
          Processed(i) =>
              LET rows == RowsOf(RunSink, i)
                  msgs == MessagesOf(RunSink, i)
                  none == \E n \in 1..Len(RunSink.err) :
                              RunSink.err[n] = FindError(i, "NoneInRadius")
              IN /\ IF SingleSearch THEN rows + msgs = 1
                    ELSE /\ msgs <= 1
                         /\ rows <= (IF msgs = 1 THEN 0 ELSE settings.k.val)
                         /\ ~none
                 /\ (input[i + 1] = CsvRecord("1", "0") /\ settings.r = Some(0)) =>
                       IF SingleSearch THEN none ELSE rows = 0 /\ msgs = 0
    /\ \A h \in holding \cup {chan[n] : n \in 1..Len(chan)} :
          h.output.ok => (h.output.val.kind = "One" <=> SingleSearch)

\* C29's case: a finished multi-threaded run with k = 1 and radius 0 whose
\* first record lies between the reference points and whose second lies on
\* one: the first got the message, the second its row.
C29_Witness ==
    /\ MultiDone /\ settings.k = Some(1) /\ settings.r = Some(0)
    /\ Len(input) = 2 /\ input[1] = CsvRecord("1", "0") /\ input[2] = CsvRecord("0", "0")
    /\ m_sink.err = <<FindError(0, "NoneInRadius")>>
    /\ RowsOf(m_sink, 1) = 1

\* The items of a document, depth-first.
RECURSIVE ItemsOf(_)
ItemsOf(kml) ==
    IF kml.kind \in Containers
    THEN LET RECURSIVE Flat(_)
             Flat(n) == IF n > Len(kml.elements) THEN <<>>
                        ELSE ItemsOf(kml.elements[n]) \o Flat(n + 1)
         IN Flat(1)
    ELSE IF kml.kind \in ItemKinds THEN <<kml>>
    ELSE <<>>

Prefix(a, b) == Len(a) <= Len(b) /\ \A n \in 1..Len(a) : a[n] = b[n]

\* The iterator by value gives the items of the document, each once, and
\* then None.
OwnedYieldsItems ==
    /\ Prefix(index.owned.out, ItemsOf(index.kml))
    /\ index.owned.ended => index.owned.out = ItemsOf(index.kml)
    /\ index.owned.calls > Len(ItemsOf(index.kml)) => index.owned.ended

\* C30: the iterator by reference gives the same finite sequence as the
\* iterator by value: the items of the document depth-first, each once, and
\* then None.
C30_SameSequence ==
    /\ OwnedYieldsItems
    /\ Prefix(index.borrowed.out, ItemsOf(index.kml))
    /\ index.borrowed.ended => index.borrowed.out = ItemsOf(index.kml)
    /\ index.borrowed.calls > Len(ItemsOf(index.kml)) => index.borrowed.ended

====
